---- MODULE Spec2Model ----
(***************************************************************************)
(* State-machine model of the SAT solver core: the DPLL reference engine   *)
(* (src/src/dpll_solver.py) and the CDCL engine (src/src/cdcl_solver.py).  *)
(* One CNF is drawn at construction; DPLLSolver.solve runs first as the    *)
(* reference oracle, then CDCLSolver.solve runs on the same input.         *)
(*                                                                         *)
(* Conventions.  Python lists are sequences; Python indices (clause        *)
(* identifiers, trail positions, heap positions) keep their 0-based        *)
(* values and are shifted by one only where a sequence is indexed.         *)
(* Python None is NoClause (-1) for a clause identifier, NoVar (0) for a   *)
(* variable and "None" for an assignment value.                            *)
(***************************************************************************)
EXTENDS Integers, Sequences, FiniteSets, TLC

\* ---------------------------------------------------------------- bounds
MaxVars == 2
MaxClauseLen == 2
MaxClauses == 2
MaxConflicts == 2
MaxRestartConflicts == 100
MaxParityVars == 12
MaxElapsed == 2

MaxFileVars == 1

MaxLines == 2

MaxTokens == 3

\* ------------------------------------------------------------- constants
NoClause == -1
NoVar == 0
NoLimit == -1
\* "self.max_learned_clauses = 1000" in __init__
DefaultMaxLearnedClauses == 1000
RestartPeriodDoubled == 2 * 100
RestartPeriod == 100

\* ---------------------------------------------------------------- basics
Abs(l) == IF l < 0 THEN -l ELSE l

Lits(n) == {l \in (-n)..n : l # 0}

InClause(l, clause) == \E i \in 1..Len(clause) : clause[i] = l

\* Let(v, Op) is Op(v) with v evaluated once.
Let(v, Op(_)) == CHOOSE y \in {Op(x) : x \in {v}} : TRUE

\* Python's True and False are "True" and "False".
BoolVal(b) == IF b THEN "True" ELSE "False"

Max2(a, b) == IF a >= b THEN a ELSE b

\* A literal is true under a total or partial valuation val (a function
\* from some variables to "True"/"False"; any other value makes it not true).
LitTrueIn(l, val) ==
    /\ Abs(l) \in DOMAIN val
    /\ val[Abs(l)] = BoolVal(l > 0)

SatisfiesAll(val, cls) ==
    \A i \in 1..Len(cls) : \E j \in 1..Len(cls[i]) : LitTrueIn(cls[i][j], val)

Satisfiable(n, cls) == \E val \in [1..n -> {"True", "False"}] : SatisfiesAll(val, cls)

\* ---------------------------------------------------------------- inputs
ClausesOver(n) == UNION {[1..k -> Lits(n)] : k \in 0..MaxClauseLen}

CnfsOver(n) == UNION {[1..m -> ClausesOver(n)] : m \in 0..MaxClauses}

\* Formulas of the test-suite and of the concrete scenarios.
Scenarios ==
    { [n |-> 2, cls |-> << <<1, 2>>, <<-1, 2>> >>],
      [n |-> 1, cls |-> << <<1>>, <<-1>> >>],
      [n |-> 2, cls |-> << <<1>>, <<-1, 2>> >>],
      [n |-> 3, cls |-> << <<1, 2>>, <<1, 3>> >>],
      [n |-> 3, cls |-> << <<1, 2, 3>>, <<-1, -2, 3>>, <<1, -2, -3>>, <<-1, 2, -3>> >>],
      [n |-> 6, cls |-> << <<1, 2>>, <<3, 4>>, <<5, 6>>,
                           <<-1, -3>>, <<-1, -5>>, <<-3, -5>>,
                           <<-2, -4>>, <<-2, -6>>, <<-4, -6>> >>],
      [n |-> 2, cls |-> << <<1>>, <<2>>, <<-1, -2>> >>],
      [n |-> 0, cls |-> << >>],
      [n |-> 0, cls |-> << << >> >>],
      [n |-> 2, cls |-> << <<-2, -2, -1>> >>],
      [n |-> 3, cls |-> << <<-1, 2>>, <<-3, -3, -1>> >>] }

Inputs ==
    Scenarios \cup
    UNION { {[n |-> n, cls |-> c] : c \in CnfsOver(n)} : n \in 0..MaxVars }

\* ==================================================================== DPLL
\* The dict self.assignment is a function whose DOMAIN is the set of keys.
EmptyDict == [v \in {} |-> "None"]

DictSet(d, k, v) == [x \in (DOMAIN d) \cup {k} |-> IF x = k THEN v ELSE d[x]]

\* Mutant: a clause that contains the negated literal is dropped as if it
\* were satisfied.
simplify_dropping_negated(cls, var, value) ==
    LET lit == IF value THEN var ELSE -var
    IN  SelectSeq(cls, LAMBDA c : ~InClause(lit, c) /\ ~InClause(-lit, c))

simplify_with_assignment(cls, var, value) ==
    LET lit == IF value THEN var ELSE -var
        kept == SelectSeq(cls, LAMBDA c : ~InClause(lit, c))
    IN  [i \in 1..Len(kept) |->
            IF InClause(-lit, kept[i])
            THEN SelectSeq(kept[i], LAMBDA x : x # -lit)
            ELSE kept[i]]

find_unit_clauses(cls) ==
    LET units == SelectSeq(cls, LAMBDA c : Len(c) = 1)
    IN  [i \in 1..Len(units) |-> units[i][1]]

\* The for-loop of _unit_propagate over the unit literals found at the
\* start of the round.  st = [cls, asg, props, changed, ok].
RECURSIVE unit_propagate_for(_, _, _)
unit_propagate_for(st, units, i) ==
    IF i > Len(units) THEN st
    ELSE LET lit == units[i]
             var == Abs(lit)
             value == lit > 0
         IN  IF var \in DOMAIN st.asg
             THEN IF st.asg[var] # BoolVal(value)
                  THEN [st EXCEPT !.ok = FALSE]
                  ELSE unit_propagate_for(st, units, i + 1)
             ELSE Let([st EXCEPT !.asg = DictSet(st.asg, var, BoolVal(value)),
                                 !.props = st.props + 1,
                                 !.changed = TRUE,
                                 !.cls = simplify_with_assignment(st.cls, var, value)],
                      LAMBDA s : unit_propagate_for(s, units, i + 1))

RECURSIVE unit_propagate_while(_)
unit_propagate_while(st) ==
    LET units == find_unit_clauses(st.cls)
    IN  IF Len(units) = 0 THEN st
        ELSE Let(unit_propagate_for([st EXCEPT !.changed = FALSE], units, 1),
                 LAMBDA r : IF ~r.ok \/ ~r.changed THEN r ELSE unit_propagate_while(r))

unit_propagate(cls, asg, props) ==
    unit_propagate_while([cls |-> cls, asg |-> asg, props |-> props,
                          changed |-> TRUE, ok |-> TRUE])

Occurs(l, cls) == \E i \in 1..Len(cls) : InClause(l, cls[i])

LitsOf(cls) == UNION { {cls[i][j] : j \in 1..Len(cls[i])} : i \in 1..Len(cls) }

find_pure_literals_none(cls, asg) == {}

find_pure_literals(cls, asg) ==
    {l \in LitsOf(cls) :
        /\ Abs(l) \notin DOMAIN asg
        /\ ~Occurs(-l, cls)}

RECURSIVE pure_literal_for(_, _)
pure_literal_for(st, pure) ==
    IF pure = {} THEN st
    ELSE LET lit == CHOOSE l \in pure : \A m \in pure : Abs(l) <= Abs(m)
             var == Abs(lit)
             value == lit > 0
         IN  IF var \notin DOMAIN st.asg
             THEN Let([st EXCEPT !.asg = DictSet(st.asg, var, BoolVal(value)),
                                 !.cls = simplify_with_assignment(st.cls, var, value)],
                      LAMBDA s : pure_literal_for(s, pure \ {lit}))
             ELSE pure_literal_for(st, pure \ {lit})

pure_literal_eliminate(cls, asg) ==
    pure_literal_for([cls |-> cls, asg |-> asg], find_pure_literals(cls, asg))

all_clauses_satisfied_never(cls) == FALSE

all_clauses_satisfied(cls) == Len(cls) = 0

has_empty_clause(cls) == \E i \in 1..Len(cls) : Len(cls[i]) = 0

\* The set appearing_vars holds small positive ints, which CPython iterates
\* in ascending order; the first one that is not a key of the assignment
\* is returned, None (NoVar) when there is none.
choose_variable(cls, asg) ==
    LET cand == {Abs(l) : l \in LitsOf(cls)} \ DOMAIN asg
    IN  IF cand = {} THEN NoVar
        ELSE CHOOSE v \in cand : \A w \in cand : v <= w

\* The body of _dpll up to the branch (dpll_body, with its part after
\* _unit_propagate and its part after _pure_literal_eliminate): ret is
\* "True" or "False" when the call returns without branching, "branch"
\* when a variable was chosen.
dpll_leaf(r, cls, asg, props) ==
    [ret |-> r, cls |-> cls, asg |-> asg, props |-> props, var |-> NoVar]

dpll_after_pure(pl, props) ==
    IF all_clauses_satisfied(pl.cls) THEN dpll_leaf("True", pl.cls, pl.asg, props)
    ELSE IF has_empty_clause(pl.cls) THEN dpll_leaf("False", pl.cls, pl.asg, props)
    ELSE Let(choose_variable(pl.cls, pl.asg), LAMBDA var :
             IF var = NoVar THEN dpll_leaf("False", pl.cls, pl.asg, props)
             ELSE [ret |-> "branch", cls |-> pl.cls, asg |-> pl.asg,
                   props |-> props, var |-> var])

dpll_after_units(up) ==
    IF ~up.ok THEN dpll_leaf("False", up.cls, up.asg, up.props)
    ELSE IF all_clauses_satisfied(up.cls) THEN dpll_leaf("True", up.cls, up.asg, up.props)
    ELSE IF has_empty_clause(up.cls) THEN dpll_leaf("False", up.cls, up.asg, up.props)
    ELSE Let(pure_literal_eliminate(up.cls, up.asg),
             LAMBDA pl : dpll_after_pure(pl, up.props))

dpll_body(cls, asg, props) ==
    Let(unit_propagate(cls, asg, props), LAMBDA up : dpll_after_units(up))

\* ==================================================================== CDCL
\* 1.0 in the unit of the activity scores.  _decay_activities divides
\* activity_inc by 0.95 = 19/20 once per conflict handled, so with at most
\* MaxConflicts conflicts every score is an exact multiple of this unit.
\* (The rescaling of _bump_activity needs a score above 1e100, which no
\* run of at most MaxConflicts conflicts reaches.)
ActivityOne == 19 ^ (MaxConflicts + 1)

Not(val) == IF val = "True" THEN "False" ELSE "True"

lit_value(asg, lit) ==
    IF asg[Abs(lit)] = "None" THEN "None"
    ELSE IF lit > 0 THEN asg[Abs(lit)] ELSE Not(asg[Abs(lit)])

Last(seq) == seq[Len(seq)]

Front(seq) == SubSeq(seq, 1, Len(seq) - 1)

\* list.remove(x): drops the first occurrence.
RemoveFirst(seq, x) ==
    LET k == CHOOSE i \in 1..Len(seq) : seq[i] = x /\ \A j \in 1..(i - 1) : seq[j] # x
    IN  SubSeq(seq, 1, k - 1) \o SubSeq(seq, k + 1, Len(seq))

Swap(seq, i, j) == [seq EXCEPT ![i] = seq[j], ![j] = seq[i]]

\* ---- variable heap: h = [order, pos, activity]; pos[v] = NoPos when v is
\* not a key of var_pos; positions are 0-based as in the source.
NoPos == -1

RECURSIVE heap_sift_up(_, _, _)
heap_sift_up(h, var, pos) ==
    IF pos <= 0 THEN h
    ELSE LET parent == (pos - 1) \div 2
         IN  IF h.activity[h.order[parent + 1]] >= h.activity[var] THEN h
             ELSE Let([h EXCEPT !.order = Swap(h.order, pos + 1, parent + 1),
                                !.pos = [[h.pos EXCEPT ![h.order[parent + 1]] = pos]
                                            EXCEPT ![h.order[pos + 1]] = parent]],
                      LAMBDA g : heap_sift_up(g, var, parent))

heap_decrease(h, var) ==
    IF h.pos[var] = NoPos THEN h ELSE heap_sift_up(h, var, h.pos[var])

\* An insert that appends the variable and leaves it at the last position.
heap_insert_at_end(h, var) ==
    IF h.pos[var] # NoPos THEN h
    ELSE [h EXCEPT !.pos = [h.pos EXCEPT ![var] = Len(h.order)],
                   !.order = Append(h.order, var)]

heap_insert(h, var) ==
    IF h.pos[var] # NoPos THEN h
    ELSE Let([h EXCEPT !.pos = [h.pos EXCEPT ![var] = Len(h.order)],
                       !.order = Append(h.order, var)],
             LAMBDA g : heap_decrease(g, var))

RECURSIVE heap_percolate_down(_, _)
heap_percolate_down(h, pos) ==
    LET size == Len(h.order)
        act(i) == h.activity[h.order[i + 1]]
        left == 2 * pos + 1
        right == 2 * pos + 2
        l1 == IF left < size /\ act(left) > act(pos) THEN left ELSE pos
        largest == IF right < size /\ act(right) > act(l1) THEN right ELSE l1
    IN  IF largest = pos THEN h
        ELSE Let([h EXCEPT !.order = Swap(h.order, pos + 1, largest + 1),
                           !.pos = [[h.pos EXCEPT ![h.order[largest + 1]] = pos]
                                       EXCEPT ![h.order[pos + 1]] = largest]],
                 LAMBDA g : heap_percolate_down(g, largest))

\* _heap_pop on a non-empty heap: the heap after the pop; the popped
\* variable is h.order[1].
heap_pop(h) ==
    LET var == h.order[1]
        last == Last(h.order)
        rest == Front(h.order)
    IN  IF Len(rest) = 0
        THEN [h EXCEPT !.order = rest, !.pos = [h.pos EXCEPT ![var] = NoPos]]
        ELSE Let([h EXCEPT !.order = [rest EXCEPT ![1] = last],
                           !.pos = [h.pos EXCEPT ![var] = NoPos, ![last] = 0]],
                 LAMBDA g : heap_percolate_down(g, 0))

\* _choose_variable: pops until an unassigned variable comes out; var is
\* NoVar when the heap ran empty.
choose_var_none(h, asg) == [h |-> h, var |-> NoVar]

RECURSIVE choose_var(_, _)
choose_var(h, asg) ==
    IF Len(h.order) = 0 THEN [h |-> h, var |-> NoVar]
    ELSE Let(h.order[1], LAMBDA var :
         Let(heap_pop(h), LAMBDA g :
             IF asg[var] = "None" THEN [h |-> g, var |-> var]
             ELSE choose_var(g, asg)))

bump_activity(h, var, inc) ==
    Let([h EXCEPT !.activity = [h.activity EXCEPT ![var] = @ + inc]],
        LAMBDA g : IF g.pos[var] # NoPos THEN heap_decrease(g, var) ELSE g)

\* The loop of _analyze_conflict that bumps the variables of the learned
\* clause, in clause order.
RECURSIVE bump_all(_, _, _, _)
bump_all(h, learned, i, inc) ==
    IF i > Len(learned) THEN h
    ELSE Let(IF Abs(learned[i]) > 0 THEN bump_activity(h, Abs(learned[i]), inc) ELSE h,
             LAMBDA g : bump_all(g, learned, i + 1, inc))

\* ---- trail lookups (linear scans, first entry naming the variable)
TrailIndex(trail, var) ==
    IF \E i \in 1..Len(trail) : Abs(trail[i].lit) = var
    THEN CHOOSE i \in 1..Len(trail) :
            /\ Abs(trail[i].lit) = var
            /\ \A j \in 1..(i - 1) : Abs(trail[j].lit) # var
    ELSE 0

var_level(trail, var) ==
    IF TrailIndex(trail, var) = 0 THEN -1 ELSE trail[TrailIndex(trail, var)].level

get_antecedent(trail, var) ==
    IF TrailIndex(trail, var) = 0 THEN NoClause
    ELSE trail[TrailIndex(trail, var)].antecedent

\* ---- _propagate.  ps = [clauses, watch_list, trail, assignment, head,
\* props, conflict, raised]: conflict is the returned clause index
\* (NoClause for None), raised tells that an IndexError or ValueError left
\* the method.

\* "for i in range(2, len(clause))": the first index whose literal is not
\* false, -1 for None.
FirstNonFalse(clause, asg) ==
    LET cand == {i \in 2..(Len(clause) - 1) : lit_value(asg, clause[i + 1]) # "False"}
    IN  IF cand = {} THEN -1 ELSE CHOOSE i \in cand : \A j \in cand : i <= j

\* The same body, recording clause 0 as the antecedent of a propagated
\* literal.
propagate_clause_first_antecedent(ps, neg_lit, clause_idx, level) ==
    IF clause_idx >= Len(ps.clauses) THEN [ps EXCEPT !.raised = TRUE]
    ELSE
    LET clause == ps.clauses[clause_idx + 1]
    IN  IF Len(clause) = 0 THEN [ps EXCEPT !.raised = TRUE]
        ELSE IF clause[1] # neg_lit /\ Len(clause) = 1 THEN [ps EXCEPT !.raised = TRUE]
        ELSE IF clause[1] # neg_lit /\ clause[2] # neg_lit THEN ps
        ELSE
        LET watched_idx == IF clause[1] = neg_lit THEN 0 ELSE 1
            other_watched_idx == 1 - watched_idx
            \* 0 stands for None
            other_watched == IF other_watched_idx < Len(clause)
                             THEN clause[other_watched_idx + 1] ELSE 0
            new_watch_idx == FirstNonFalse(clause, ps.assignment)
        IN  IF other_watched # 0 /\ lit_value(ps.assignment, other_watched) = "True"
            THEN ps
            ELSE IF new_watch_idx # -1
            THEN IF ~InClause(clause_idx, ps.watch_list[neg_lit])
                 THEN [ps EXCEPT !.raised = TRUE,
                                 !.clauses[clause_idx + 1] =
                                     Swap(clause, watched_idx + 1, new_watch_idx + 1)]
                 ELSE [ps EXCEPT
                         !.clauses[clause_idx + 1] =
                             Swap(clause, watched_idx + 1, new_watch_idx + 1),
                         !.watch_list =
                             [[ps.watch_list EXCEPT ![neg_lit] = RemoveFirst(@, clause_idx)]
                                 EXCEPT ![clause[new_watch_idx + 1]] = Append(@, clause_idx)]]
            ELSE IF other_watched # 0 /\ lit_value(ps.assignment, other_watched) = "False"
            THEN [ps EXCEPT !.conflict = clause_idx]
            ELSE IF other_watched # 0
            THEN [ps EXCEPT
                    !.assignment[Abs(other_watched)] = BoolVal(other_watched > 0),
                    !.trail = Append(@, [lit |-> other_watched, level |-> level,
                                         antecedent |-> 0]),
                    !.props = @ + 1]
            ELSE ps

\* The body of the for-loop for one clause index of watch_list_copy.
propagate_clause(ps, neg_lit, clause_idx, level) ==
    IF clause_idx >= Len(ps.clauses) THEN [ps EXCEPT !.raised = TRUE]
    ELSE
    LET clause == ps.clauses[clause_idx + 1]
    IN  IF Len(clause) = 0 THEN [ps EXCEPT !.raised = TRUE]
        ELSE IF clause[1] # neg_lit /\ Len(clause) = 1 THEN [ps EXCEPT !.raised = TRUE]
        ELSE IF clause[1] # neg_lit /\ clause[2] # neg_lit THEN ps
        ELSE
        LET watched_idx == IF clause[1] = neg_lit THEN 0 ELSE 1
            other_watched_idx == 1 - watched_idx
            \* 0 stands for None
            other_watched == IF other_watched_idx < Len(clause)
                             THEN clause[other_watched_idx + 1] ELSE 0
            new_watch_idx == FirstNonFalse(clause, ps.assignment)
        IN  IF other_watched # 0 /\ lit_value(ps.assignment, other_watched) = "True"
            THEN ps
            ELSE IF new_watch_idx # -1
            THEN IF ~InClause(clause_idx, ps.watch_list[neg_lit])
                 THEN [ps EXCEPT !.raised = TRUE,
                                 !.clauses[clause_idx + 1] =
                                     Swap(clause, watched_idx + 1, new_watch_idx + 1)]
                 ELSE [ps EXCEPT
                         !.clauses[clause_idx + 1] =
                             Swap(clause, watched_idx + 1, new_watch_idx + 1),
                         !.watch_list =
                             [[ps.watch_list EXCEPT ![neg_lit] = RemoveFirst(@, clause_idx)]
                                 EXCEPT ![clause[new_watch_idx + 1]] = Append(@, clause_idx)]]
            ELSE IF other_watched # 0 /\ lit_value(ps.assignment, other_watched) = "False"
            THEN [ps EXCEPT !.conflict = clause_idx]
            ELSE IF other_watched # 0
            THEN [ps EXCEPT
                    !.assignment[Abs(other_watched)] = BoolVal(other_watched > 0),
                    !.trail = Append(@, [lit |-> other_watched, level |-> level,
                                         antecedent |-> clause_idx]),
                    !.props = @ + 1]
            ELSE ps

RECURSIVE propagate_for(_, _, _, _, _)
propagate_for(ps, neg_lit, copy, k, level) ==
    IF k > Len(copy) THEN ps
    ELSE Let(propagate_clause(ps, neg_lit, copy[k], level), LAMBDA r :
             IF r.conflict # NoClause \/ r.raised THEN r
             ELSE propagate_for(r, neg_lit, copy, k + 1, level))

RECURSIVE propagate_while(_, _)
propagate_while(ps, level) ==
    IF ps.head >= Len(ps.trail) THEN ps
    ELSE Let(ps.trail[ps.head + 1].lit, LAMBDA lit :
         Let(propagate_for([ps EXCEPT !.head = @ + 1], -lit, ps.watch_list[-lit], 1, level),
             LAMBDA r : IF r.conflict # NoClause \/ r.raised THEN r
                        ELSE propagate_while(r, level)))

propagate(cls, wl, trail, asg, head, props, level) ==
    propagate_while([clauses |-> cls, watch_list |-> wl, trail |-> trail,
                     assignment |-> asg, head |-> head, props |-> props,
                     conflict |-> NoClause, raised |-> FALSE], level)

\* Mutant: a unit clause over an already assigned variable is reported as
\* a conflict without comparing the values.
RECURSIVE initial_scan_no_compare(_, _, _)
initial_scan_no_compare(ps, cls, i) ==
    IF i > Len(cls) THEN ps
    ELSE IF Len(cls[i]) # 1 THEN initial_scan_no_compare(ps, cls, i + 1)
    ELSE LET lit == cls[i][1]
             var == Abs(lit)
         IN  IF ps.assignment[var] = "None"
             THEN Let([ps EXCEPT !.assignment[var] = BoolVal(lit > 0),
                                 !.trail = Append(@, [lit |-> lit, level |-> 0,
                                                      antecedent |-> i - 1]),
                                 !.props = @ + 1],
                      LAMBDA r : initial_scan_no_compare(r, cls, i + 1))
             ELSE [ps EXCEPT !.conflict = i - 1]

\* Mutant: the unit clauses are checked against the assignment but never
\* asserted.
initial_scan_no_assert(ps, cls, i) == ps

\* ---- _initial_propagate: the scan for unit clauses, then _propagate.
RECURSIVE initial_scan(_, _, _)
initial_scan(ps, cls, i) ==
    IF i > Len(cls) THEN ps
    ELSE IF Len(cls[i]) # 1 THEN initial_scan(ps, cls, i + 1)
    ELSE LET lit == cls[i][1]
             var == Abs(lit)
         IN  IF ps.assignment[var] = "None"
             THEN Let([ps EXCEPT !.assignment[var] = BoolVal(lit > 0),
                                 !.trail = Append(@, [lit |-> lit, level |-> 0,
                                                      antecedent |-> i - 1]),
                                 !.props = @ + 1],
                      LAMBDA r : initial_scan(r, cls, i + 1))
             ELSE IF ps.assignment[var] # BoolVal(lit > 0)
             THEN [ps EXCEPT !.conflict = i - 1]
             ELSE initial_scan(ps, cls, i + 1)

\* An initial propagation that skips the scan for unit clauses.
initial_propagate_without_scan(cls, wl, trail, asg, head, props) ==
    propagate_while([clauses |-> cls, watch_list |-> wl, trail |-> trail,
                     assignment |-> asg, head |-> head, props |-> props,
                     conflict |-> NoClause, raised |-> FALSE], 0)

initial_propagate(cls, wl, trail, asg, head, props) ==
    Let(initial_scan([clauses |-> cls, watch_list |-> wl, trail |-> trail,
                      assignment |-> asg, head |-> head, props |-> props,
                      conflict |-> NoClause, raised |-> FALSE], cls, 1),
        LAMBDA r : IF r.conflict # NoClause THEN r ELSE propagate_while(r, 0))

\* ---- _analyze_conflict.  an = [clause, learned, seen, counter, p, var]
\* holds the locals of the method: clause is the index of the clause being
\* processed, p is 0 for None, and var is the local var, which the for-loop
\* and the trail walk both assign.
RECURSIVE analyze_for(_, _, _, _, _)
analyze_for(an, clause, i, trail, level) ==
    IF i > Len(clause) THEN an
    ELSE LET lit == clause[i]
             var == Abs(lit)
             lv == var_level(trail, var)
         IN  Let(IF ~an.seen[var] /\ var > 0
                 THEN [an EXCEPT !.var = var,
                                 !.seen[var] = TRUE,
                                 !.counter = IF lv = level THEN @ + 1 ELSE @,
                                 !.learned = IF lv # level /\ lv > 0
                                             THEN Append(@, -lit) ELSE @]
                 ELSE [an EXCEPT !.var = var],
                 LAMBDA a : analyze_for(a, clause, i + 1, trail, level))

\* The walk "while len(self.trail) > 0": pops the trail down to the last
\* entry whose variable is seen.  r = [an, trail].
RECURSIVE analyze_walk(_)
analyze_walk(r) ==
    IF Len(r.trail) = 0 THEN r
    ELSE Let(Last(r.trail).lit, LAMBDA p :
             IF r.an.seen[Abs(p)]
             THEN [r EXCEPT !.an.p = p, !.an.var = Abs(p)]
             ELSE analyze_walk([an |-> [r.an EXCEPT !.p = p, !.var = Abs(p)],
                                trail |-> Front(r.trail)]))

\* One iteration of the "while True" of _analyze_conflict: done tells that
\* the loop was left by one of its two breaks.
analyze_iteration(an, trail, cls, level) ==
    Let(analyze_for(an, cls[an.clause + 1], 1, trail, level), LAMBDA a1 :
    Let(analyze_walk([an |-> a1, trail |-> trail]), LAMBDA r :
        IF r.an.counter = 1 THEN [an |-> r.an, trail |-> r.trail, done |-> TRUE]
        ELSE Let([r.an EXCEPT !.counter = @ - 1, !.seen[r.an.var] = FALSE], LAMBDA a2 :
             Let(get_antecedent(r.trail, a2.var), LAMBDA antecedent_idx :
                 IF antecedent_idx = NoClause
                 THEN [an |-> a2, trail |-> r.trail, done |-> TRUE]
                 ELSE [an |-> [a2 EXCEPT !.clause = antecedent_idx],
                       trail |-> r.trail, done |-> FALSE]))))

\* "learned.append(-p if p else 0)"
learned_clause_of(an) == Append(an.learned, -an.p)

RECURSIVE max_level_of(_, _, _)
max_level_of(learned, i, trail) ==
    IF i >= Len(learned) THEN 0
    ELSE Max2(var_level(trail, Abs(learned[i])), max_level_of(learned, i + 1, trail))

\* A backtrack level that ignores the levels of the learned literals.
backtrack_level_of_zero(learned, trail) == 0

\* The backtrack level computed from the finished learned clause.
backtrack_level_of(learned, trail) ==
    IF Len(learned) = 1 THEN 0 ELSE max_level_of(learned, 1, trail)

\* ---- _backtrack.  bs = [trail, trail_lim, assignment, decision_level,
\* head, h].
RECURSIVE backtrack_undo(_, _, _)
backtrack_undo(bs, i, target) ==
    IF i < target THEN bs
    ELSE Let([bs EXCEPT !.assignment[Abs(bs.trail[i + 1].lit)] = "None",
                        !.h = heap_insert(bs.h, Abs(bs.trail[i + 1].lit))],
             LAMBDA b : backtrack_undo(b, i - 1, target))

\* A backtrack that leaves trail_lim as it was.
backtrack_keeping_trail_lim(bs, level) ==
    IF level >= bs.decision_level THEN bs
    ELSE IF level >= 0 /\ level >= Len(bs.trail_lim) THEN bs
    ELSE Let(IF level < 0 THEN 0 ELSE bs.trail_lim[level + 1], LAMBDA target_trail_pos :
         Let(backtrack_undo(bs, Len(bs.trail) - 1, target_trail_pos), LAMBDA b :
         Let(IF target_trail_pos < Len(b.trail) THEN target_trail_pos ELSE Len(b.trail),
             LAMBDA new_len :
             [b EXCEPT !.trail = SubSeq(b.trail, 1, new_len),
                       !.decision_level = level,
                       !.head = new_len])))

backtrack(bs, level) ==
    IF level >= bs.decision_level THEN bs
    ELSE IF level >= 0 /\ level >= Len(bs.trail_lim) THEN bs
    ELSE Let(IF level < 0 THEN 0 ELSE bs.trail_lim[level + 1], LAMBDA target_trail_pos :
         Let(backtrack_undo(bs, Len(bs.trail) - 1, target_trail_pos), LAMBDA b :
         Let(IF target_trail_pos < Len(b.trail) THEN target_trail_pos ELSE Len(b.trail),
             LAMBDA new_len :
             [b EXCEPT !.trail = SubSeq(b.trail, 1, new_len),
                       !.trail_lim = SubSeq(b.trail_lim, 1, level),
                       !.decision_level = level,
                       !.head = new_len])))

\* ---- _add_learned_clause.  db = [clauses, learned_clauses,
\* clause_activity, watch_list].
add_learned_clause(db, clause) ==
    IF Len(clause) = 0 THEN db
    ELSE LET clause_idx == Len(db.clauses)
             wl1 == [db.watch_list EXCEPT ![clause[1]] = Append(@, clause_idx)]
         IN  [db EXCEPT
                !.clauses = Append(@, clause),
                !.learned_clauses = Append(@, clause_idx),
                !.clause_activity = Append(@, 0),
                !.watch_list = IF Len(clause) >= 2
                               THEN [wl1 EXCEPT ![clause[2]] = Append(@, clause_idx)]
                               ELSE wl1]

\* ---- _reduce_learned_clauses.
\* The (activity, index) pairs of the learned clauses, as in
\* learned_with_activity.
LearnedWithActivity(db, n_original) ==
    LET ok(idx) == idx - n_original >= 0 /\ idx - n_original < Len(db.clause_activity)
        kept == SelectSeq(db.learned_clauses, ok)
    IN  [i \in 1..Len(kept) |-> <<db.clause_activity[kept[i] - n_original + 1], kept[i]>>]

PairGreater(a, b) == a[1] > b[1] \/ (a[1] = b[1] /\ a[2] > b[2])

\* sort(reverse=True) of a list of pairs.
RECURSIVE SortReverse(_)
SortReverse(seq) ==
    IF Len(seq) = 0 THEN << >>
    ELSE LET k == CHOOSE i \in 1..Len(seq) :
                     /\ \A j \in 1..Len(seq) : ~PairGreater(seq[j], seq[i])
                     /\ \A j \in 1..(i - 1) : seq[j] # seq[i]
         IN  <<seq[k]>> \o SortReverse(SubSeq(seq, 1, k - 1) \o SubSeq(seq, k + 1, Len(seq)))

ClausesToRemove(db, trail, n_original) ==
    LET sorted == SortReverse(LearnedWithActivity(db, n_original))
        keep_count == Len(sorted) \div 2
        is_reason(idx) == \E i \in 1..Len(trail) : trail[i].antecedent = idx
    IN  {sorted[i][2] : i \in {j \in (keep_count + 1)..Len(sorted) : ~is_reason(sorted[j][2])}}

RemoveIfPresent(seq, x) == IF InClause(x, seq) THEN RemoveFirst(seq, x) ELSE seq

RECURSIVE reduce_remove(_, _)
reduce_remove(db, to_remove) ==
    IF to_remove = {} THEN db
    ELSE LET clause_idx == CHOOSE c \in to_remove : \A d \in to_remove : c <= d
             clause == db.clauses[clause_idx + 1]
             wl1 == IF Len(clause) >= 1
                    THEN [db.watch_list EXCEPT ![clause[1]] = RemoveIfPresent(@, clause_idx)]
                    ELSE db.watch_list
             wl2 == IF Len(clause) >= 2
                    THEN [wl1 EXCEPT ![clause[2]] = RemoveIfPresent(@, clause_idx)]
                    ELSE wl1
         IN  IF clause_idx < Len(db.clauses)
             THEN Let([db EXCEPT !.watch_list = wl2, !.clauses[clause_idx + 1] = << >>],
                      LAMBDA d : reduce_remove(d, to_remove \ {clause_idx}))
             ELSE reduce_remove(db, to_remove \ {clause_idx})

reduce_learned_clauses(db, trail, n_original) ==
    Let(ClausesToRemove(db, trail, n_original), LAMBDA to_remove :
    Let(reduce_remove(db, to_remove), LAMBDA d :
        [d EXCEPT !.learned_clauses = SelectSeq(@, LAMBDA idx : idx \notin to_remove)]))

\* ================================================================== DIMACS
\* A file is [num_vars, lines]: the N of its problem line "p cnf N M" and
\* its other lines, each the sequence of the integers that line.split()
\* yields (a blank line is the empty sequence).  M is returned by
\* parse_dimacs but read by nothing except the verbose message.
Tokens(n) == Lits(n) \cup {0}

LinesOver(n) == UNION {[1..k -> Tokens(n)] : k \in 0..MaxTokens}

\* write_dimacs: one line per clause, its literals followed by 0.
write_dimacs(n, cls) ==
    [num_vars |-> n, lines |-> [i \in 1..Len(cls) |-> Append(cls[i], 0)]]

NoFile == [num_vars |-> 0, lines |-> << >>]

\* The "for line in f" of parse_dimacs over the lines after the problem
\* line: r = [error, clauses]; error tells that ValueError was raised.
RECURSIVE parse_lines(_, _, _)
parse_lines(lines, i, r) ==
    IF i > Len(lines) THEN r
    ELSE Let(lines[i], LAMBDA literals :
         IF Len(literals) = 0 THEN parse_lines(lines, i + 1, r)
         ELSE IF Last(literals) # 0 THEN [r EXCEPT !.error = TRUE]
         ELSE Let(Front(literals), LAMBDA clause :
              parse_lines(lines, i + 1,
                          IF Len(clause) > 0
                          THEN [r EXCEPT !.clauses = Append(@, clause)]
                          ELSE r)))

parse_dimacs(file) ==
    Let(parse_lines(file.lines, 1, [error |-> FALSE, clauses |-> << >>]), LAMBDA r :
        [error |-> r.error, num_vars |-> file.num_vars, clauses |-> r.clauses])

\* Every literal of the clause list is one of 1..n or -1..-n.
LiteralsInRange(n, cls) ==
    \A i \in 1..Len(cls) : \A j \in 1..Len(cls[i]) : cls[i][j] \in Lits(n)

\* ==================================================================== state
VARIABLES
    num_vars,              \* N given to both constructors
    input_clauses,         \* the clause list given to both constructors
    dimacs_file,           \* the input file of the solve command, NoFile without one
    max_learned_clauses,   \* CDCLSolver.max_learned_clauses: 1000 after __init__,
                           \* an attribute the caller may lower before solve()
    cli_pc,                \* "api" (solvers built by direct calls, solve() called
                           \* twice), "once" (built by direct calls, solve()
                           \* called once without deadline), or the solve
                           \* command's position: "start", "parsed", "error",
                           \* "out_of_range"; "generate" for a run of the
                           \* benchmark generator
    conflict_cap,          \* the number of conflicts a run is followed for
    \* ---- DPLLSolver
    dpll_original_clauses, \* DPLLSolver.original_clauses
    dpll_clauses,          \* DPLLSolver.clauses (working copy)
    dpll_assignment,       \* DPLLSolver.assignment (dict)
    dpll_num_decisions,
    dpll_num_propagations,
    dpll_max_depth,
    dpll_stack,            \* frames of _try_assignment awaiting their recursive _dpll
    dpll_pc,               \* "init", "call", "ret", "done"
    dpll_ret,              \* value returned by the _dpll call that just ended
    dpll_result,           \* what DPLLSolver.solve returned
    \* ---- CDCLSolver
    original_clauses,
    clauses,
    learned_clauses,
    clause_activity,
    watch_list,            \* literal -> sequence of clause indices
    trail,                 \* sequence of [lit, level, antecedent]
    trail_lim,
    assignment,            \* var -> "True", "False" or "None"
    decision_level,
    activity,
    activity_inc,
    var_order,
    var_pos,
    num_decisions,
    num_propagations,
    num_conflicts,
    num_learned,
    num_restarts,
    propagate_head,
    an,                    \* locals of the running _analyze_conflict
    learned_clause,        \* what _analyze_conflict returned
    backtrack_level,
    time_limit,            \* argument of solve: NoLimit for None, else seconds
    elapsed,               \* time.time() - start_time, in seconds
    pc,                    \* "init", "loop", "analyze", "backjump", "done"
    result,                \* what CDCLSolver.solve returned
    \* ---- the caller
    dpll_first_result,     \* what the first call of DPLLSolver.solve returned
    cdcl_first_result,     \* what the first call of CDCLSolver.solve returned
    \* ---- benchmark_generator, type "parity"
    parity_num_vars,       \* args.vars, the num_vars of generate_parity
    parity_clauses,        \* the list "clauses" of generate_parity
    parity_i,              \* the i of its "for i in range(2, num_vars + 1)"
    gen_pc                 \* "none", "start", "chain", "generated", "written"

dpll_vars == <<dpll_original_clauses, dpll_clauses, dpll_assignment, dpll_num_decisions,
               dpll_num_propagations, dpll_max_depth, dpll_stack, dpll_pc,
               dpll_ret, dpll_result>>

gen_vars == <<parity_num_vars, parity_clauses, parity_i, gen_pc>>

input_vars == <<num_vars, input_clauses, dimacs_file, cli_pc, max_learned_clauses,
                conflict_cap, gen_vars>>

db_vars == <<clauses, learned_clauses, clause_activity, watch_list>>

trail_vars == <<trail, trail_lim, assignment, decision_level, propagate_head>>

heap_vars == <<activity, activity_inc, var_order, var_pos>>

stat_vars == <<num_decisions, num_propagations, num_conflicts, num_learned, num_restarts>>

analysis_vars == <<an, learned_clause, backtrack_level>>

cdcl_vars == <<original_clauses, db_vars, trail_vars, heap_vars, stat_vars, analysis_vars,
               time_limit, elapsed, pc, result>>

run_vars == <<dpll_first_result, cdcl_first_result>>

vars == <<input_vars, dpll_vars, cdcl_vars, run_vars>>

\* A returned tuple (is_sat, assignment, stats).  is_sat is "True", "False"
\* or "None"; assignment is {} for None and {a} for the dict a; "pending"
\* until solve returns.
Pending == [is_sat |-> "pending", assignment |-> {}, decisions |-> 0,
            propagations |-> 0, conflicts |-> 0]

TimeLimits == {NoLimit, 0, 1}

\* ------------------------------------------------------------ DPLL actions
DpllInit ==
    /\ dpll_original_clauses = input_clauses
    /\ dpll_clauses = << >>
    /\ dpll_assignment = EmptyDict
    /\ dpll_num_decisions = 0
    /\ dpll_num_propagations = 0
    /\ dpll_max_depth = 0
    /\ dpll_stack = << >>
    /\ dpll_pc = "init"
    /\ dpll_ret = FALSE
    /\ dpll_result = Pending

\* solve(): _init_data_structures, then the call _dpll(0) is entered.  The
\* caller calls solve a second time on the same object once the first call
\* has returned, keeping what the first call returned.
DpllSolveStart ==
    /\ \/ /\ dpll_pc = "init"
          /\ UNCHANGED dpll_first_result
       \/ /\ dpll_pc = "done"
          /\ cli_pc = "api"
          /\ dpll_first_result = Pending
          /\ dpll_first_result' = dpll_result
    /\ dpll_clauses' = dpll_original_clauses
    /\ dpll_assignment' = EmptyDict
    /\ dpll_num_decisions' = 0
    /\ dpll_num_propagations' = 0
    /\ dpll_max_depth' = 0
    /\ dpll_stack' = << >>
    /\ dpll_pc' = "call"
    /\ UNCHANGED <<dpll_original_clauses, dpll_ret, dpll_result>>
    /\ UNCHANGED <<input_vars, cdcl_vars, cdcl_first_result>>

\* One call _dpll(depth) with depth = Len(dpll_stack): it either returns
\* or enters _try_assignment(var, True, depth), which saves the state,
\* assigns and recurses.
DpllCall ==
    /\ dpll_pc = "call"
    /\ \E r \in {dpll_body(dpll_clauses, dpll_assignment, dpll_num_propagations)} :
           /\ dpll_max_depth' = Max2(dpll_max_depth, Len(dpll_stack))
           /\ dpll_num_propagations' = r.props
           /\ IF r.ret = "branch"
              THEN /\ dpll_num_decisions' = dpll_num_decisions + 1
                   /\ dpll_stack' = Append(dpll_stack,
                          [var |-> r.var, value |-> TRUE,
                           saved_clauses |-> r.cls, saved_assignment |-> r.asg])
                   /\ dpll_assignment' = DictSet(r.asg, r.var, "True")
                   /\ dpll_clauses' = simplify_with_assignment(r.cls, r.var, TRUE)
                   /\ dpll_pc' = "call"
                   /\ UNCHANGED dpll_ret
              ELSE /\ dpll_clauses' = r.cls
                   /\ dpll_assignment' = r.asg
                   /\ dpll_pc' = "ret"
                   /\ dpll_ret' = (r.ret = "True")
                   /\ UNCHANGED <<dpll_num_decisions, dpll_stack>>
    /\ UNCHANGED <<dpll_original_clauses, dpll_result>>
    /\ UNCHANGED <<input_vars, cdcl_vars, run_vars>>

DpllTop == dpll_stack[Len(dpll_stack)]

DpllPop == SubSeq(dpll_stack, 1, Len(dpll_stack) - 1)

\* The recursive _dpll returned True: _try_assignment returns True and so
\* does the enclosing _dpll.
DpllTrySucceeds ==
    /\ dpll_pc = "ret"
    /\ Len(dpll_stack) > 0
    /\ dpll_ret
    /\ dpll_stack' = DpllPop
    /\ UNCHANGED <<dpll_original_clauses, dpll_clauses, dpll_assignment, dpll_num_decisions,
                   dpll_num_propagations, dpll_max_depth, dpll_pc, dpll_ret,
                   dpll_result>>
    /\ UNCHANGED <<input_vars, cdcl_vars, run_vars>>

\* Mutant: the failed True branch is not undone before False is tried.
DpllTryFalseNoRestore ==
    /\ dpll_pc = "ret"
    /\ Len(dpll_stack) > 0
    /\ ~dpll_ret
    /\ DpllTop.value
    /\ LET f == DpllTop
       IN  /\ dpll_num_decisions' = dpll_num_decisions + 1
           /\ dpll_stack' = Append(DpllPop,
                  [var |-> f.var, value |-> FALSE,
                   saved_clauses |-> dpll_clauses,
                   saved_assignment |-> dpll_assignment])
           /\ dpll_assignment' = DictSet(dpll_assignment, f.var, "False")
           /\ dpll_clauses' = simplify_with_assignment(dpll_clauses, f.var, FALSE)
    /\ dpll_pc' = "call"
    /\ UNCHANGED <<dpll_original_clauses, dpll_num_propagations, dpll_max_depth, dpll_ret,
                   dpll_result>>
    /\ UNCHANGED <<input_vars, cdcl_vars, run_vars>>

\* _try_assignment(var, True, depth) failed: it restores the saved state
\* and returns False; _dpll then enters _try_assignment(var, False, depth).
DpllTryFalse ==
    /\ dpll_pc = "ret"
    /\ Len(dpll_stack) > 0
    /\ ~dpll_ret
    /\ DpllTop.value
    /\ LET f == DpllTop
       IN  /\ dpll_num_decisions' = dpll_num_decisions + 1
           /\ dpll_stack' = Append(DpllPop,
                  [var |-> f.var, value |-> FALSE,
                   saved_clauses |-> f.saved_clauses,
                   saved_assignment |-> f.saved_assignment])
           /\ dpll_assignment' = DictSet(f.saved_assignment, f.var, "False")
           /\ dpll_clauses' = simplify_with_assignment(f.saved_clauses, f.var, FALSE)
    /\ dpll_pc' = "call"
    /\ UNCHANGED <<dpll_original_clauses, dpll_num_propagations, dpll_max_depth, dpll_ret,
                   dpll_result>>
    /\ UNCHANGED <<input_vars, cdcl_vars, run_vars>>

\* A failed _try_assignment(var, False, depth) that returns without
\* restoring the saved state.
DpllBranchFailsNoRestore ==
    /\ dpll_pc = "ret"
    /\ Len(dpll_stack) > 0
    /\ ~dpll_ret
    /\ ~DpllTop.value
    /\ dpll_stack' = DpllPop
    /\ UNCHANGED <<dpll_original_clauses, dpll_clauses, dpll_assignment,
                   dpll_num_decisions, dpll_num_propagations,
                   dpll_max_depth, dpll_pc, dpll_ret, dpll_result>>
    /\ UNCHANGED <<input_vars, cdcl_vars, run_vars>>

\* _try_assignment(var, False, depth) failed: it restores the saved state
\* and returns False, and the enclosing _dpll returns False.
DpllBranchFails ==
    /\ dpll_pc = "ret"
    /\ Len(dpll_stack) > 0
    /\ ~dpll_ret
    /\ ~DpllTop.value
    /\ dpll_clauses' = DpllTop.saved_clauses
    /\ dpll_assignment' = DpllTop.saved_assignment
    /\ dpll_stack' = DpllPop
    /\ UNCHANGED <<dpll_original_clauses, dpll_num_decisions, dpll_num_propagations,
                   dpll_max_depth, dpll_pc, dpll_ret, dpll_result>>
    /\ UNCHANGED <<input_vars, cdcl_vars, run_vars>>

\* _dpll(0) returned to solve.
DpllSolveReturn ==
    /\ dpll_pc = "ret"
    /\ Len(dpll_stack) = 0
    /\ dpll_pc' = "done"
    /\ dpll_result' =
          [is_sat |-> IF dpll_ret THEN "True" ELSE "False",
           assignment |-> IF dpll_ret THEN {dpll_assignment} ELSE {},
           decisions |-> dpll_num_decisions,
           propagations |-> dpll_num_propagations,
           conflicts |-> 0]
    /\ UNCHANGED <<dpll_original_clauses, dpll_clauses, dpll_assignment, dpll_num_decisions,
                   dpll_num_propagations, dpll_max_depth, dpll_stack, dpll_ret>>
    /\ UNCHANGED <<input_vars, cdcl_vars, run_vars>>

\* ------------------------------------------------------------ CDCL actions
AnNone == [clause |-> NoClause, learned |-> << >>,
           seen |-> [v \in 1..num_vars |-> FALSE], counter |-> 0, p |-> 0, var |-> 0]

\* CDCLSolver.__init__
CdclInit ==
    /\ original_clauses = SelectSeq(input_clauses, LAMBDA c : Len(c) > 0)
    /\ clauses = << >>
    /\ learned_clauses = << >>
    /\ clause_activity = << >>
    /\ watch_list = [l \in Lits(num_vars) |-> << >>]
    /\ trail = << >>
    /\ trail_lim = << >>
    /\ assignment = [v \in 1..num_vars |-> "None"]
    /\ decision_level = 0
    /\ activity = [v \in 1..num_vars |-> 0]
    /\ activity_inc = ActivityOne
    /\ var_order = << >>
    /\ var_pos = [v \in 1..num_vars |-> NoPos]
    /\ num_decisions = 0
    /\ num_propagations = 0
    /\ num_conflicts = 0
    /\ num_learned = 0
    /\ num_restarts = 0
    /\ propagate_head = 0
    /\ an = AnNone
    /\ learned_clause = << >>
    /\ backtrack_level = 0
    /\ time_limit = NoLimit
    /\ elapsed = 0
    /\ pc = "init"
    /\ result = Pending

\* The watch registration of _init_data_structures, appended to the watch
\* lists as they are.
RECURSIVE init_watches(_, _, _)
init_watches(wl, cls, i) ==
    IF i > Len(cls) THEN wl
    ELSE LET c == cls[i]
             wl1 == IF Len(c) >= 1 THEN [wl EXCEPT ![c[1]] = Append(@, i - 1)] ELSE wl
             wl2 == IF Len(c) >= 2 THEN [wl1 EXCEPT ![c[2]] = Append(@, i - 1)] ELSE wl1
         IN  Let(wl2, LAMBDA w : init_watches(w, cls, i + 1))

\* "for var in range(1, self.num_vars + 1): self._heap_insert(var)"
RECURSIVE init_heap(_, _, _)
init_heap(h, var, n) ==
    IF var > n THEN h
    ELSE Let(heap_insert(h, var), LAMBDA g : init_heap(g, var + 1, n))

\* _get_stats, with the verdict and the assignment of the returned tuple.
Returned(is_sat, asg, decisions, propagations, conflicts, learned, restarts) ==
    [is_sat |-> is_sat, assignment |-> asg, decisions |-> decisions,
     propagations |-> propagations, conflicts |-> conflicts,
     learned |-> learned, restarts |-> restarts]

Heap == [order |-> var_order, pos |-> var_pos, activity |-> activity]

\* "if time_limit and (time.time() - start_time) > time_limit"
DeadlineExceeded == time_limit # NoLimit /\ time_limit # 0 /\ elapsed > time_limit

\* solve(time_limit) up to the main loop: _init_data_structures, the check
\* for an empty clause and _initial_propagate.  The caller calls solve a
\* second time on the same object, with the same time_limit, once the first
\* call has returned; _init_data_structures then starts from the fields the
\* first call left (watch_list, activity, activity_inc and clause_activity
\* are not reset).  The solve command calls solve() once, without a
\* time_limit.
CdclSolveStart ==
    /\ dpll_pc = "done"
    /\ cli_pc = "api" => dpll_first_result # Pending
    /\ \/ /\ pc = "init"
          /\ \E tl \in (IF cli_pc = "api" THEN TimeLimits ELSE {NoLimit}) :
                time_limit' = tl
          /\ UNCHANGED cdcl_first_result
       \/ /\ pc = "done"
          /\ cli_pc = "api"
          /\ cdcl_first_result = Pending
          /\ cdcl_first_result' = result
          /\ UNCHANGED time_limit
    /\ elapsed' = 0
    /\ \E h \in {init_heap([order |-> << >>, pos |-> [v \in 1..num_vars |-> NoPos],
                           activity |-> activity], 1, num_vars)} :
       \E wl \in {init_watches(watch_list, original_clauses, 1)} :
         /\ var_order' = h.order
         /\ var_pos' = h.pos
         /\ learned_clauses' = << >>
         /\ decision_level' = 0
         /\ trail_lim' = << >>
         /\ num_decisions' = 0
         /\ num_conflicts' = 0
         /\ num_learned' = 0
         /\ num_restarts' = 0
         /\ IF \E i \in 1..Len(original_clauses) : Len(original_clauses[i]) = 0
            THEN /\ clauses' = original_clauses
                 /\ watch_list' = wl
                 /\ trail' = << >>
                 /\ assignment' = [v \in 1..num_vars |-> "None"]
                 /\ propagate_head' = 0
                 /\ num_propagations' = 0
                 /\ pc' = "done"
                 /\ result' = Returned("False", {}, 0, 0, 0, 0, 0)
            ELSE \E r \in {initial_propagate(original_clauses, wl, << >>,
                               [v \in 1..num_vars |-> "None"], 0, 0)} :
                 /\ clauses' = r.clauses
                 /\ watch_list' = r.watch_list
                 /\ trail' = r.trail
                 /\ assignment' = r.assignment
                 /\ propagate_head' = r.head
                 /\ num_propagations' = r.props
                 /\ IF r.raised
                    THEN /\ pc' = "done"
                         /\ result' = Returned("raised", {}, 0, r.props, 0, 0, 0)
                    ELSE IF r.conflict # NoClause
                    THEN /\ pc' = "done"
                         /\ result' = Returned("False", {}, 0, r.props, 0, 0, 0)
                    ELSE /\ pc' = "loop"
                         /\ result' = Pending
    /\ UNCHANGED <<original_clauses, clause_activity, activity, activity_inc, analysis_vars>>
    /\ UNCHANGED <<input_vars, dpll_vars, dpll_first_result>>

\* The wall clock advances while solve runs.
Tick ==
    /\ pc \in {"loop", "analyze", "backjump"}
    /\ time_limit # NoLimit
    /\ elapsed < MaxElapsed
    /\ elapsed' = elapsed + 1
    /\ UNCHANGED <<original_clauses, db_vars, trail_vars, heap_vars, stat_vars,
                   analysis_vars, time_limit, pc, result>>
    /\ UNCHANGED <<input_vars, dpll_vars, run_vars>>

\* Main loop, "Check time limit": the deadline has passed.
CdclDeadline ==
    /\ pc = "loop"
    /\ DeadlineExceeded
    /\ pc' = "done"
    /\ result' = Returned("None", {}, num_decisions, num_propagations, num_conflicts,
                          num_learned, num_restarts)
    /\ UNCHANGED <<original_clauses, db_vars, trail_vars, heap_vars, stat_vars,
                   analysis_vars, time_limit, elapsed>>
    /\ UNCHANGED <<input_vars, dpll_vars, run_vars>>

Propagated ==
    propagate(clauses, watch_list, trail, assignment, propagate_head,
              num_propagations, decision_level)

\* Main loop, _propagate returned a conflict clause: unsat at level 0,
\* otherwise _analyze_conflict is entered.
CdclConflict ==
    /\ pc = "loop"
    /\ ~DeadlineExceeded
    /\ num_conflicts < conflict_cap
    /\ \E r \in {Propagated} :
         /\ ~r.raised
         /\ r.conflict # NoClause
         /\ clauses' = r.clauses
         /\ watch_list' = r.watch_list
         /\ trail' = r.trail
         /\ assignment' = r.assignment
         /\ propagate_head' = r.head
         /\ num_propagations' = r.props
         /\ num_conflicts' = num_conflicts + 1
         /\ IF decision_level = 0
            THEN /\ pc' = "done"
                 /\ result' = Returned("False", {}, num_decisions, r.props,
                                       num_conflicts + 1, num_learned, num_restarts)
                 /\ UNCHANGED an
            ELSE /\ pc' = "analyze"
                 /\ an' = [AnNone EXCEPT !.clause = r.conflict]
                 /\ UNCHANGED result
    /\ UNCHANGED <<original_clauses, learned_clauses, clause_activity, trail_lim,
                   decision_level, heap_vars, num_decisions, num_learned, num_restarts,
                   learned_clause, backtrack_level, time_limit, elapsed>>
    /\ UNCHANGED <<input_vars, dpll_vars, run_vars>>

\* Main loop, _propagate returned None: sat when the trail holds num_vars
\* entries, otherwise _make_decision.
CdclNoConflict ==
    /\ pc = "loop"
    /\ ~DeadlineExceeded
    /\ \E r \in {Propagated} :
         /\ r.raised \/ r.conflict = NoClause
         /\ clauses' = r.clauses
         /\ watch_list' = r.watch_list
         /\ propagate_head' = r.head
         /\ num_propagations' = r.props
         /\ IF r.raised
            THEN /\ pc' = "done"
                 /\ result' = Returned("raised", {}, num_decisions, r.props,
                                       num_conflicts, num_learned, num_restarts)
                 /\ trail' = r.trail
                 /\ assignment' = r.assignment
                 /\ UNCHANGED <<trail_lim, decision_level, var_order, var_pos, num_decisions>>
            ELSE IF Len(r.trail) = num_vars
            THEN /\ pc' = "done"
                 /\ result' = Returned("True", {[v \in 1..num_vars |-> r.assignment[v]]},
                                       num_decisions, r.props,
                                       num_conflicts, num_learned, num_restarts)
                 /\ trail' = r.trail
                 /\ assignment' = r.assignment
                 /\ UNCHANGED <<trail_lim, decision_level, var_order, var_pos, num_decisions>>
            ELSE \E d \in {choose_var(Heap, r.assignment)} :
                 /\ var_order' = d.h.order
                 /\ var_pos' = d.h.pos
                 /\ pc' = "loop"
                 /\ UNCHANGED result
                 /\ IF d.var = NoVar
                    THEN /\ trail' = r.trail
                         /\ assignment' = r.assignment
                         /\ UNCHANGED <<trail_lim, decision_level, num_decisions>>
                    ELSE /\ decision_level' = decision_level + 1
                         /\ trail_lim' = Append(trail_lim, Len(r.trail))
                         /\ assignment' = [r.assignment EXCEPT ![d.var] = "True"]
                         /\ trail' = Append(r.trail, [lit |-> d.var,
                                                      level |-> decision_level + 1,
                                                      antecedent |-> NoClause])
                         /\ num_decisions' = num_decisions + 1
    /\ UNCHANGED <<original_clauses, learned_clauses, clause_activity, activity,
                   activity_inc, num_conflicts, num_learned, num_restarts,
                   analysis_vars, time_limit, elapsed>>
    /\ UNCHANGED <<input_vars, dpll_vars, run_vars>>

Analyzed == analyze_iteration(an, trail, clauses, decision_level)

\* _analyze_conflict: an iteration of its loop that goes on to resolve
\* with the antecedent of p.  When the iteration re-marks p from its own
\* antecedent, the locals and the trail come out as they went in: the
\* "while True" then repeats the same iteration forever, which shows here
\* as a step that changes no variable.
CdclAnalyzeResolve ==
    /\ pc = "analyze"
    /\ \E r \in {Analyzed} :
         /\ ~r.done
         /\ an' = r.an
         /\ trail' = r.trail
    /\ UNCHANGED <<original_clauses, db_vars, trail_lim, assignment, decision_level,
                   propagate_head, heap_vars, stat_vars, learned_clause,
                   backtrack_level, time_limit, elapsed, pc, result>>
    /\ UNCHANGED <<input_vars, dpll_vars, run_vars>>

\* _analyze_conflict: the iteration that leaves the loop, then the rest of
\* the method (UIP literal, backtrack level, activity bumps, counter).
CdclAnalyzeReturn ==
    /\ pc = "analyze"
    /\ \E r \in {Analyzed} :
         /\ r.done
         /\ an' = r.an
         /\ trail' = r.trail
         /\ \E learned \in {learned_clause_of(r.an)} :
              /\ learned_clause' = learned
              /\ backtrack_level' = backtrack_level_of(learned, r.trail)
              /\ \E h \in {bump_all(Heap, learned, 1, activity_inc)} :
                   /\ activity' = h.activity
                   /\ var_order' = h.order
                   /\ var_pos' = h.pos
    /\ num_learned' = num_learned + 1
    /\ pc' = "backjump"
    /\ UNCHANGED <<original_clauses, db_vars, trail_lim, assignment, decision_level,
                   propagate_head, activity_inc, num_decisions, num_propagations,
                   num_conflicts, num_restarts, time_limit, elapsed, result>>
    /\ UNCHANGED <<input_vars, dpll_vars, run_vars>>

\* Main loop after _analyze_conflict: _backtrack, _add_learned_clause,
\* _decay_activities, the database reduction and the restart.
CdclBackjump ==
    /\ pc = "backjump"
    /\ \E b1 \in {backtrack([trail |-> trail, trail_lim |-> trail_lim,
                             assignment |-> assignment,
                             decision_level |-> decision_level,
                             head |-> propagate_head, h |-> Heap], backtrack_level)} :
       \E db1 \in {add_learned_clause([clauses |-> clauses,
                                       learned_clauses |-> learned_clauses,
                                       clause_activity |-> clause_activity,
                                       watch_list |-> watch_list], learned_clause)} :
       \E db2 \in {IF Len(db1.learned_clauses) > max_learned_clauses
                   THEN reduce_learned_clauses(db1, b1.trail, Len(original_clauses))
                   ELSE db1} :
       \E b2 \in {IF num_conflicts % RestartPeriod = 0 THEN backtrack(b1, 0) ELSE b1} :
         /\ clauses' = db2.clauses
         /\ learned_clauses' = db2.learned_clauses
         /\ clause_activity' = db2.clause_activity
         /\ watch_list' = db2.watch_list
         /\ trail' = b2.trail
         /\ trail_lim' = b2.trail_lim
         /\ assignment' = b2.assignment
         /\ decision_level' = b2.decision_level
         /\ propagate_head' = b2.head
         /\ var_order' = b2.h.order
         /\ var_pos' = b2.h.pos
    /\ activity_inc' = (activity_inc * 20) \div 19
    /\ num_restarts' = IF num_conflicts % RestartPeriod = 0
                       THEN num_restarts + 1 ELSE num_restarts
    /\ pc' = "loop"
    /\ UNCHANGED <<original_clauses, activity, num_decisions, num_propagations,
                   num_conflicts, num_learned, analysis_vars, time_limit, elapsed, result>>
    /\ UNCHANGED <<input_vars, dpll_vars, run_vars>>

\* The benchmark generator has not been run.
GenIdle ==
    /\ parity_num_vars = 0
    /\ parity_clauses = << >>
    /\ parity_i = 0
    /\ gen_pc = "none"

\* ------------------------------------------------------- the solve command
\* The state before solve_command has built a solver.
NotConstructed ==
    /\ num_vars = 0
    /\ max_learned_clauses = DefaultMaxLearnedClauses
    /\ conflict_cap = MaxConflicts
    /\ input_clauses = << >>
    /\ dpll_original_clauses = << >>
    /\ dpll_clauses = << >>
    /\ dpll_assignment = EmptyDict
    /\ dpll_num_decisions = 0
    /\ dpll_num_propagations = 0
    /\ dpll_max_depth = 0
    /\ dpll_stack = << >>
    /\ dpll_pc = "none"
    /\ dpll_ret = FALSE
    /\ dpll_result = Pending
    /\ original_clauses = << >>
    /\ clauses = << >>
    /\ learned_clauses = << >>
    /\ clause_activity = << >>
    /\ watch_list = [l \in {} |-> << >>]
    /\ trail = << >>
    /\ trail_lim = << >>
    /\ assignment = << >>
    /\ decision_level = 0
    /\ activity = << >>
    /\ activity_inc = ActivityOne
    /\ var_order = << >>
    /\ var_pos = << >>
    /\ num_decisions = 0
    /\ num_propagations = 0
    /\ num_conflicts = 0
    /\ num_learned = 0
    /\ num_restarts = 0
    /\ propagate_head = 0
    /\ an = [clause |-> NoClause, learned |-> << >>, seen |-> << >>,
             counter |-> 0, p |-> 0, var |-> 0]
    /\ learned_clause = << >>
    /\ backtrack_level = 0
    /\ time_limit = NoLimit
    /\ elapsed = 0
    /\ pc = "none"
    /\ result = Pending
    /\ dpll_first_result = Pending
    /\ cdcl_first_result = Pending

\* DPLLSolver(n, cls) and CDCLSolver(n, cls): the fields after __init__.
Construct(n, cls) ==
    /\ dpll_original_clauses' = cls
    /\ dpll_clauses' = << >>
    /\ dpll_assignment' = EmptyDict
    /\ dpll_pc' = "init"
    /\ original_clauses' = SelectSeq(cls, LAMBDA c : Len(c) > 0)
    /\ clauses' = << >>
    /\ watch_list' = [l \in Lits(n) |-> << >>]
    /\ assignment' = [v \in 1..n |-> "None"]
    /\ activity' = [v \in 1..n |-> 0]
    /\ activity_inc' = ActivityOne
    /\ var_order' = << >>
    /\ var_pos' = [v \in 1..n |-> NoPos]
    /\ an' = [clause |-> NoClause, learned |-> << >>,
              seen |-> [v \in 1..n |-> FALSE], counter |-> 0, p |-> 0, var |-> 0]
    /\ pc' = "init"
    /\ UNCHANGED <<dpll_num_decisions, dpll_num_propagations, dpll_max_depth,
                   dpll_stack, dpll_ret, dpll_result, learned_clauses,
                   clause_activity, trail, trail_lim, decision_level,
                   propagate_head, stat_vars, learned_clause, backtrack_level,
                   time_limit, elapsed, result, run_vars>>

\* solve_command up to "Create solver": parse_dimacs, whose ValueError ends
\* the command with exit status 1, then the constructors.  The solvers are
\* modelled for clauses over the literals of 1..N; a parsed clause list
\* with another literal (the token 0 inside a line) ends the run here.
SolveCommandParse ==
    /\ cli_pc = "start"
    /\ \E r \in {parse_dimacs(dimacs_file)} :
         IF r.error
         THEN /\ cli_pc' = "error"
              /\ UNCHANGED <<num_vars, input_clauses, dpll_vars, cdcl_vars, run_vars>>
         ELSE /\ num_vars' = r.num_vars
              /\ input_clauses' = r.clauses
              /\ IF LiteralsInRange(r.num_vars, r.clauses)
                 THEN /\ cli_pc' = "parsed"
                      /\ Construct(r.num_vars, r.clauses)
                 ELSE /\ cli_pc' = "out_of_range"
                      /\ UNCHANGED <<dpll_vars, cdcl_vars, run_vars>>
    /\ UNCHANGED <<dimacs_file, max_learned_clauses, conflict_cap, gen_vars>>

Init ==
    /\ \E inp \in Inputs : num_vars = inp.n /\ input_clauses = inp.cls
    /\ DpllInit
    /\ CdclInit
    /\ dpll_first_result = Pending
    /\ cdcl_first_result = Pending
    /\ dimacs_file = NoFile
    /\ cli_pc = "api"
    /\ GenIdle
    /\ max_learned_clauses = DefaultMaxLearnedClauses
    /\ conflict_cap = MaxConflicts

Next ==
    \/ DpllSolveStart
    \/ DpllCall
    \/ DpllTrySucceeds
    \/ DpllTryFalse
    \/ DpllBranchFails
    \/ DpllSolveReturn
    \/ CdclSolveStart
    \/ Tick
    \/ CdclDeadline
    \/ CdclConflict
    \/ CdclNoConflict
    \/ CdclAnalyzeResolve
    \/ CdclAnalyzeReturn
    \/ CdclBackjump

Spec == Init /\ [][Next]_vars

\* The solvers take steps as long as they can; the clock is not required
\* to advance.
Step ==
    \/ DpllSolveStart
    \/ DpllCall
    \/ DpllTrySucceeds
    \/ DpllTryFalse
    \/ DpllBranchFails
    \/ DpllSolveReturn
    \/ CdclSolveStart
    \/ CdclDeadline
    \/ CdclConflict
    \/ CdclNoConflict
    \/ CdclAnalyzeResolve
    \/ CdclAnalyzeReturn
    \/ CdclBackjump

FairSpec == Spec /\ WF_vars(Step)

\* The solve command on a DIMACS file: the file is parsed, the solvers are
\* built from what the parser returns and solve() runs without a deadline.
ParseInit ==
    /\ \/ \E s \in Scenarios : dimacs_file = write_dimacs(s.n, s.cls)
       \/ \E n \in 0..MaxFileVars : \E m \in 0..MaxLines :
             \E f \in [1..m -> LinesOver(n)] :
                 dimacs_file = [num_vars |-> n, lines |-> f]
    /\ cli_pc = "start"
    /\ NotConstructed
    /\ GenIdle

ParseNext ==
    \/ SolveCommandParse
    \/ DpllSolveStart
    \/ DpllCall
    \/ DpllTrySucceeds
    \/ DpllTryFalse
    \/ DpllBranchFails
    \/ DpllSolveReturn
    \/ CdclSolveStart
    \/ CdclConflict
    \/ CdclNoConflict
    \/ CdclAnalyzeResolve
    \/ CdclAnalyzeReturn
    \/ CdclBackjump

ParseSpec == ParseInit /\ [][ParseNext]_vars

\* The solvers of Init, with the threshold of the database reduction
\* lowered by the caller after construction (solver.max_learned_clauses =
\* k), so that _reduce_learned_clauses runs after the first conflicts.
LoweredLimits == {0, 1}

ReduceInit ==
    /\ \E inp \in Inputs : num_vars = inp.n /\ input_clauses = inp.cls
    /\ DpllInit
    /\ CdclInit
    /\ dpll_first_result = Pending
    /\ cdcl_first_result = Pending
    /\ dimacs_file = NoFile
    /\ cli_pc = "api"
    /\ GenIdle
    /\ max_learned_clauses \in LoweredLimits
    /\ conflict_cap = MaxConflicts

ReduceSpec == ReduceInit /\ [][Next]_vars

\* The solvers of Init, solved once without deadline and followed for
\* MaxRestartConflicts conflicts, so that the restart of every 100th
\* conflict is reached.  (Past MaxConflicts + 1 decays activity_inc is
\* rounded down to a multiple of 1 / ActivityOne.)
RestartInit ==
    /\ \E inp \in Inputs : num_vars = inp.n /\ input_clauses = inp.cls
    /\ DpllInit
    /\ CdclInit
    /\ dpll_first_result = Pending
    /\ cdcl_first_result = Pending
    /\ dimacs_file = NoFile
    /\ cli_pc = "once"
    /\ GenIdle
    /\ max_learned_clauses = DefaultMaxLearnedClauses
    /\ conflict_cap = MaxRestartConflicts

RestartNext ==
    \/ DpllSolveStart
    \/ DpllCall
    \/ DpllTrySucceeds
    \/ DpllTryFalse
    \/ DpllBranchFails
    \/ DpllSolveReturn
    \/ CdclSolveStart
    \/ CdclConflict
    \/ CdclNoConflict
    \/ CdclAnalyzeResolve
    \/ CdclAnalyzeReturn
    \/ CdclBackjump

RestartSpec == RestartInit /\ [][RestartNext]_vars

\* ------------------------------------------- benchmark_generator, parity
\* "aux_start = num_vars + 1"
aux_start(n) == n + 1

\* The four clauses of "prev_aux XOR xi = curr_aux" appended by the
\* iteration i of the loop of generate_parity.
parity_xor_clauses(n, i) ==
    LET prev_aux == aux_start(n) + i - 2
        curr_aux == aux_start(n) + i - 1
        xi == i
    IN  << <<prev_aux, xi, curr_aux>>,
           <<prev_aux, -xi, -curr_aux>>,
           <<-prev_aux, xi, -curr_aux>>,
           <<-prev_aux, -xi, curr_aux>> >>

\* "final_aux = aux_start + num_vars - 1"
final_aux(n) == aux_start(n) + n - 1

\* The variable count that the parity branch of __main__ hands to
\* write_dimacs: "num_vars = args.vars + args.vars - 1".
parity_header_vars(n) == n + n - 1

\* generate_parity up to its loop: the two clauses of "y1 = x1".
ParityStart ==
    /\ gen_pc = "start"
    /\ parity_clauses' = << <<-1, aux_start(parity_num_vars)>>,
                            <<1, -aux_start(parity_num_vars)>> >>
    /\ parity_i' = 2
    /\ gen_pc' = "chain"
    /\ UNCHANGED <<parity_num_vars, num_vars, input_clauses, dimacs_file, cli_pc,
                   max_learned_clauses, conflict_cap>>
    /\ UNCHANGED <<dpll_vars, cdcl_vars, run_vars>>

\* One iteration of "for i in range(2, num_vars + 1)".
ParityChain ==
    /\ gen_pc = "chain"
    /\ parity_i <= parity_num_vars
    /\ parity_clauses' = parity_clauses \o parity_xor_clauses(parity_num_vars, parity_i)
    /\ parity_i' = parity_i + 1
    /\ UNCHANGED <<parity_num_vars, gen_pc, num_vars, input_clauses, dimacs_file, cli_pc,
                   max_learned_clauses, conflict_cap>>
    /\ UNCHANGED <<dpll_vars, cdcl_vars, run_vars>>

\* The loop has ended: the unit clause of the final auxiliary, and the
\* return.
ParityFinal ==
    /\ gen_pc = "chain"
    /\ parity_i > parity_num_vars
    /\ parity_clauses' = Append(parity_clauses, <<final_aux(parity_num_vars)>>)
    /\ gen_pc' = "generated"
    /\ UNCHANGED <<parity_num_vars, parity_i, num_vars, input_clauses, dimacs_file, cli_pc,
                   max_learned_clauses, conflict_cap>>
    /\ UNCHANGED <<dpll_vars, cdcl_vars, run_vars>>

\* The parity branch of __main__ after generate_parity returned:
\* write_dimacs with the variable count it computes.
ParityWrite ==
    /\ gen_pc = "generated"
    /\ dimacs_file' = write_dimacs(parity_header_vars(parity_num_vars), parity_clauses)
    /\ gen_pc' = "written"
    /\ UNCHANGED <<parity_num_vars, parity_clauses, parity_i, num_vars, input_clauses,
                   cli_pc, max_learned_clauses, conflict_cap>>
    /\ UNCHANGED <<dpll_vars, cdcl_vars, run_vars>>

\* "benchmark_generator.py parity <output> --vars N" with N >= 1.
GenInit ==
    /\ parity_num_vars \in 1..MaxParityVars
    /\ parity_clauses = << >>
    /\ parity_i = 0
    /\ gen_pc = "start"
    /\ dimacs_file = NoFile
    /\ cli_pc = "generate"
    /\ NotConstructed

GenNext ==
    \/ ParityStart
    \/ ParityChain
    \/ ParityFinal
    \/ ParityWrite

GenSpec == GenInit /\ [][GenNext]_vars

\* ================================================================== claims
HasEmptyClause == \E i \in 1..Len(input_clauses) : Len(input_clauses[i]) = 0

DpllDone == dpll_pc = "done"

CdclDone == pc = "done"

CdclRunning == pc \in {"loop", "analyze", "backjump"}

\* The model stops a run at its (conflict_cap + 1)-th conflict.
ConflictCapReached ==
    /\ pc = "loop"
    /\ ~DeadlineExceeded
    /\ num_conflicts >= conflict_cap
    /\ Propagated.conflict # NoClause

\* C1: when CDCLSolver.solve returns sat with assignment A, every clause
\* given to the constructor, zero-length clauses included, has a literal
\* that A makes true.
C1_CdclSatSound ==
    (CdclDone /\ result.is_sat = "True") =>
        \A a \in result.assignment : SatisfiesAll(a, input_clauses)

\* C2: when DPLLSolver.solve returns sat with assignment A, every input
\* clause has a literal whose variable is a key of A with the value of the
\* literal's polarity.
C2_DpllSatSound ==
    (DpllDone /\ dpll_result.is_sat = "True") =>
        /\ dpll_result.assignment # {}
        /\ \A a \in dpll_result.assignment : SatisfiesAll(a, input_clauses)

C2_Witness ==
    /\ DpllDone
    /\ dpll_result.is_sat = "True"
    /\ Len(input_clauses) > 0
    /\ \E a \in dpll_result.assignment : DOMAIN a # 1..num_vars

\* C3: on every CNF, DPLLSolver.solve and CDCLSolver.solve (without a
\* deadline) return the same sat/unsat verdict.
C3_SameVerdict ==
    (DpllDone /\ CdclDone /\ time_limit = NoLimit) =>
        /\ result.is_sat \in {"True", "False"}
        /\ result.is_sat = dpll_result.is_sat

\* C4: CDCLSolver.solve without a deadline terminates: from every state of
\* the driver loop a sat or unsat return is eventually reached.
C4_CdclTerminates ==
    (CdclRunning /\ time_limit = NoLimit) ~>
        ((CdclDone /\ result.is_sat \in {"True", "False"}) \/ ConflictCapReached)

\* C5: CDCLSolver.solve returns unsat only if no assignment of the N
\* variables satisfies every input clause.
C5_CdclUnsatSound ==
    (CdclDone /\ result.is_sat = "False") =>
        /\ result.assignment = {}
        /\ ~Satisfiable(num_vars, input_clauses)

C5_Witness ==
    /\ CdclDone
    /\ result.is_sat = "False"
    /\ result.propagations > 0
    /\ \E i \in 1..Len(input_clauses) :
          /\ Len(input_clauses[i]) = 2
          /\ Abs(input_clauses[i][1]) = Abs(input_clauses[i][2])

\* C6: DPLLSolver.solve terminates, returns sat exactly when some
\* assignment satisfies every input clause, and returns unsat with
\* assignment None exactly when none does.
C6_DpllDecides ==
    /\ <>DpllDone
    /\ [](DpllDone =>
            /\ dpll_result.is_sat \in {"True", "False"}
            /\ (dpll_result.is_sat = "True") = Satisfiable(num_vars, input_clauses)
            /\ (dpll_result.is_sat = "False") = (dpll_result.assignment = {}))

C6_Witness ==
    /\ DpllDone
    /\ num_vars = 6
    /\ Len(input_clauses) = 9
    /\ dpll_result.is_sat = "False"
    /\ dpll_result.assignment = {}
    /\ dpll_result.decisions > 0

\* C7: if the input holds a zero-length clause, DPLLSolver.solve and
\* CDCLSolver.solve both return unsat, having made zero decisions.
C7_EmptyClauseUnsat ==
    HasEmptyClause =>
        /\ DpllDone => (dpll_result.is_sat = "False" /\ dpll_result.decisions = 0)
        /\ CdclDone => (result.is_sat = "False" /\ result.decisions = 0)

\* C8: if the input holds a clause of length 1 over literal l and a solver
\* returns sat, the returned assignment holds var(l) with the value that
\* makes l true.
C8_UnitClauseAsserted ==
    \A i \in 1..Len(input_clauses) :
        Len(input_clauses[i]) = 1 =>
            /\ (DpllDone /\ dpll_result.is_sat = "True") =>
                   \A a \in dpll_result.assignment : LitTrueIn(input_clauses[i][1], a)
            /\ (CdclDone /\ result.is_sat = "True") =>
                   \A a \in result.assignment : LitTrueIn(input_clauses[i][1], a)

C8_Witness ==
    /\ DpllDone /\ dpll_result.is_sat = "True"
    /\ CdclDone /\ result.is_sat = "True"
    /\ Len(input_clauses) > 1
    /\ \E i \in 1..Len(input_clauses) :
          Len(input_clauses[i]) = 1 /\ input_clauses[i][1] < 0

\* C9: on a sat verdict the assignment returned by either solver has a
\* boolean value for every variable k in 1..N.
C9_TotalAssignment ==
    /\ (DpllDone /\ dpll_result.is_sat = "True") =>
           \A a \in dpll_result.assignment :
               /\ DOMAIN a = 1..num_vars
               /\ \A k \in 1..num_vars : a[k] \in {"True", "False"}
    /\ (CdclDone /\ result.is_sat = "True") =>
           \A a \in result.assignment :
               /\ DOMAIN a = 1..num_vars
               /\ \A k \in 1..num_vars : a[k] \in {"True", "False"}

\* C10: when the deadline given to CDCLSolver.solve is exceeded, solve
\* eventually returns the unknown verdict (is_sat None, assignment None)
\* with the counters accumulated so far.
C10_DeadlineUnknown ==
    (CdclRunning /\ DeadlineExceeded) ~>
        \/ /\ CdclDone
           /\ result.is_sat = "None"
           /\ result.assignment = {}
           /\ result.decisions = num_decisions
           /\ result.propagations = num_propagations
           /\ result.conflicts = num_conflicts
        \/ ConflictCapReached

\* C11: a second solve call on the same solver object returns the same
\* verdict and the same decisions, propagations and conflicts counters as
\* the first call (DPLL, and CDCL without a deadline).
C11_SecondRunIdentical ==
    /\ (DpllDone /\ dpll_first_result # Pending) =>
           /\ dpll_result.is_sat = dpll_first_result.is_sat
           /\ dpll_result.decisions = dpll_first_result.decisions
           /\ dpll_result.propagations = dpll_first_result.propagations
    /\ (CdclDone /\ cdcl_first_result # Pending /\ time_limit = NoLimit) =>
           /\ result.is_sat = cdcl_first_result.is_sat
           /\ result.decisions = cdcl_first_result.decisions
           /\ result.propagations = cdcl_first_result.propagations
           /\ result.conflicts = cdcl_first_result.conflicts

\* The literal l occurs in the input and its complement does not.
PureInInput(l) == Occurs(l, input_clauses) /\ ~Occurs(-l, input_clauses)

NoUnitNoEmptyClause == \A i \in 1..Len(input_clauses) : Len(input_clauses[i]) >= 2

\* C12: in a sat assignment returned by DPLLSolver.solve a variable that
\* occurs in the input with one polarity only never has the opposite value,
\* and when the input has no unit clause and no empty clause the variable
\* is in the assignment with its pure polarity.
C12_PureLiteralPolarity ==
    (DpllDone /\ dpll_result.is_sat = "True") =>
        \A a \in dpll_result.assignment : \A l \in Lits(num_vars) :
            PureInInput(l) =>
                /\ Abs(l) \in DOMAIN a => LitTrueIn(l, a)
                /\ NoUnitNoEmptyClause => LitTrueIn(l, a)

C12_Witness ==
    /\ DpllDone
    /\ dpll_result.is_sat = "True"
    /\ NoUnitNoEmptyClause
    /\ dpll_result.decisions > 0
    /\ \E l \in Lits(num_vars) :
          /\ l < 0
          /\ PureInInput(l)
          /\ \A a \in dpll_result.assignment : LitTrueIn(l, a)

\* C13: for an empty clause list DPLLSolver.solve returns sat, and so does
\* every CDCLSolver.solve call that is not cut short by its deadline; over
\* 0 variables the returned assignment is empty.
C13_EmptyFormulaSat ==
    Len(input_clauses) = 0 =>
        /\ DpllDone =>
               /\ dpll_result.is_sat = "True"
               /\ num_vars = 0 => \A a \in dpll_result.assignment : DOMAIN a = {}
        /\ (CdclDone /\ result.is_sat # "None") =>
               /\ result.is_sat = "True"
               /\ result.assignment # {}
               /\ num_vars = 0 => \A a \in result.assignment : DOMAIN a = {}

C13_Witness ==
    /\ Len(input_clauses) = 0
    /\ num_vars = 0
    /\ DpllDone /\ dpll_result.assignment = {EmptyDict}
    /\ CdclDone /\ result.is_sat = "True"

\* The tokens of the file's clause lines, in order, line breaks dropped.
RECURSIVE TokenStream(_, _)
TokenStream(lines, i) ==
    IF i > Len(lines) THEN << >> ELSE lines[i] \o TokenStream(lines, i + 1)

\* The clauses of a token stream: the literals before each 0 token.
RECURSIVE SplitAtZero(_, _, _, _)
SplitAtZero(toks, i, cur, acc) ==
    IF i > Len(toks) THEN acc
    ELSE IF toks[i] = 0 THEN SplitAtZero(toks, i + 1, << >>, Append(acc, cur))
    ELSE SplitAtZero(toks, i + 1, Append(cur, toks[i]), acc)

FileTokens == TokenStream(dimacs_file.lines, 1)

\* The file holds a 0 token with no literal before it.
FileHasEmptyClause ==
    \E i \in 1..Len(FileTokens) :
        FileTokens[i] = 0 /\ (i = 1 \/ FileTokens[i - 1] = 0)

\* C14: a DIMACS file that holds an empty clause is reported unsatisfiable:
\* after parse_dimacs both DPLLSolver.solve and CDCLSolver.solve return
\* unsat.
C14_DimacsEmptyClauseUnsat ==
    (cli_pc = "parsed" /\ FileHasEmptyClause) =>
        /\ DpllDone => dpll_result.is_sat = "False"
        /\ CdclDone => result.is_sat = "False"

\* C15: parse_dimacs ends a clause at the token 0 only: for a file whose
\* token stream is empty or ends with 0, parsing raises no error and the
\* clauses returned are, in order, the non-empty runs of literals between
\* consecutive 0 tokens, however the line breaks split them (the empty runs
\* are the subject of C14).
C15_ZeroTerminatesClause ==
    (cli_pc # "start" /\ (Len(FileTokens) = 0 \/ Last(FileTokens) = 0)) =>
        /\ cli_pc # "error"
        /\ input_clauses =
              SelectSeq(SplitAtZero(FileTokens, 1, << >>, << >>), LAMBDA c : Len(c) > 0)

\* C16: every call of _analyze_conflict at a decision level above 0
\* terminates: the analysis of a conflict is eventually left.
C16_AnalysisTerminates == (pc = "analyze" /\ decision_level > 0) ~> (pc # "analyze")

\* The clause added last (the learned clause) has its asserting literal,
\* the last one, unassigned and every other literal false.
LearnedClauseIsUnit ==
    /\ Len(clauses) > 0
    /\ Last(clauses) = learned_clause
    /\ lit_value(assignment, Last(learned_clause)) = "None"
    /\ \A j \in 1..(Len(learned_clause) - 1) :
           lit_value(assignment, learned_clause[j]) = "False"

\* The propagation round that starts in this state puts the asserting
\* literal on the trail with the learned clause as its antecedent.
LearnedClauseAsserted ==
    \E i \in 1..Len(Propagated.trail) :
        /\ Propagated.trail[i].lit = Last(learned_clause)
        /\ Propagated.trail[i].antecedent = Len(clauses) - 1

\* C17: when the driver has backjumped and added the learned clause, the
\* clause is unit under the current assignment and the next propagation
\* round, which runs before any decision, assigns its asserting literal
\* with the learned clause as antecedent.
C17_LearnedClauseAssertedNext ==
    [][(pc = "backjump" /\ pc' = "loop") =>
           (LearnedClauseIsUnit /\ LearnedClauseAsserted)']_vars

\* The trail entries that name the variable v.
TrailEntriesOf(v) == {i \in 1..Len(trail) : Abs(trail[i].lit) = v}

\* C18: at every top-level iteration of the CDCL main loop the assignment
\* vector is the projection of the trail: a variable has a value iff
\* exactly one trail entry names it, and the value is the polarity of that
\* entry's literal.
C18_TrailConsistency ==
    pc = "loop" =>
        \A v \in 1..num_vars :
            /\ Cardinality(TrailEntriesOf(v)) <= 1
            /\ (assignment[v] # "None") = (TrailEntriesOf(v) # {})
            /\ \A i \in TrailEntriesOf(v) : assignment[v] = BoolVal(trail[i].lit > 0)

\* C19: _analyze_conflict leaves the trail unchanged: no step of the
\* analysis changes the trail, so the trail when the analysis returns is the
\* trail of the moment the conflict was reported.
C19_AnalysisLeavesTrail == [][pc = "analyze" => trail' = trail]_vars

\* The positions of the clause c whose literal is not false under asg.
NonFalse(c, asg) == {j \in 1..Len(c) : lit_value(asg, c[j]) # "False"}

\* C20: whenever the CDCL driver reads the result of _propagate, either a
\* conflict is returned, and it is a clause with every literal false, or
\* every clause of the database is satisfied by the assignment or has at
\* least two literals that are not false.  (A clause with exactly one
\* literal that is not false, that literal being true, is a satisfied
\* clause.)
C20_PropagationComplete ==
    (pc = "loop" /\ ~DeadlineExceeded /\ ~Propagated.raised) =>
        IF Propagated.conflict # NoClause
        THEN NonFalse(Propagated.clauses[Propagated.conflict + 1],
                      Propagated.assignment) = {}
        ELSE \A i \in 1..Len(Propagated.clauses) :
                 LET c == Propagated.clauses[i]
                     asg == Propagated.assignment
                 IN  \/ \E j \in 1..Len(c) : lit_value(asg, c[j]) = "True"
                     \/ Cardinality(NonFalse(c, asg)) >= 2

\* How many times the clause index idx stands in the sequence w.
CountIn(w, idx) == Cardinality({k \in 1..Len(w) : w[k] = idx})

\* The watch lists wl hold the index of every clause of cls once for each
\* of its first two positions, under the literal at that position, and
\* hold nothing else.
WatchInvariant(cls, wl) ==
    \A l \in DOMAIN wl :
        /\ \A k \in 1..Len(wl[l]) : wl[l][k] \in 0..(Len(cls) - 1)
        /\ \A i \in 1..Len(cls) :
               CountIn(wl[l], i - 1) =
                   Cardinality({j \in 1..Len(cls[i]) : j <= 2 /\ cls[i][j] = l})

\* C21: after every propagate, backtrack and clause addition of CDCL each
\* clause of length >= 2 is watched on exactly its first two literals, and
\* each clause of length 1 on its single literal.
C21_WatchInvariant ==
    pc = "loop" =>
        /\ WatchInvariant(clauses, watch_list)
        /\ ~Propagated.raised =>
               WatchInvariant(Propagated.clauses, Propagated.watch_list)

\* The driver is about to read a _propagate result without conflict while
\* some variable has no value.
DecisionDue ==
    /\ pc = "loop"
    /\ ~DeadlineExceeded
    /\ ~Propagated.raised
    /\ Propagated.conflict = NoClause
    /\ \E v \in 1..num_vars : Propagated.assignment[v] = "None"

\* The step made a decision: a variable without value left the heap, a
\* new level was opened at the current trail length and the variable was
\* appended as a true literal without antecedent.
DecisionTaken ==
    \E v \in 1..num_vars :
        /\ Propagated.assignment[v] = "None"
        /\ var_pos[v] # NoPos
        /\ var_pos'[v] = NoPos
        /\ decision_level' = decision_level + 1
        /\ trail_lim' = Append(trail_lim, Len(Propagated.trail))
        /\ trail' = Append(Propagated.trail,
                           [lit |-> v, level |-> decision_level + 1,
                            antecedent |-> NoClause])
        /\ assignment' = [Propagated.assignment EXCEPT ![v] = "True"]
        /\ num_decisions' = num_decisions + 1

\* _choose_variable, called on the propagation result, returns a variable
\* without value that it popped from the heap.
DecisionAvailable ==
    \E d \in {choose_var(Heap, Propagated.assignment)} :
        /\ d.var # NoVar
        /\ Propagated.assignment[d.var] = "None"
        /\ var_pos[d.var] # NoPos
        /\ d.h.pos[d.var] = NoPos

\* C22: whenever CDCL propagation reports no conflict and some variable is
\* not yet assigned, _choose_variable yields an unassigned variable and the
\* driver's step makes the decision (it is never a silent no-op).
C22_DecisionTakesEffect ==
    /\ [](DecisionDue => DecisionAvailable)
    /\ [][(DecisionDue /\ elapsed' = elapsed) => DecisionTaken]_vars

C22_Witness ==
    /\ pc = "loop"
    /\ num_vars >= 2
    /\ decision_level = 2
    /\ Len(trail_lim) = 2
    /\ Last(trail).antecedent = NoClause
    /\ Last(trail).level = 2

\* The variables stored in the heap.
HeapVars == {var_order[k] : k \in 1..Len(var_order)}

\* C23: between top-level operations of the CDCL driver the variables
\* stored in the heap are exactly the variables whose assignment is None.
C23_HeapIsUnassigned ==
    pc = "loop" =>
        /\ HeapVars = {v \in 1..num_vars : var_pos[v] # NoPos}
        /\ HeapVars = {v \in 1..num_vars : assignment[v] = "None"}

\* _analyze_conflict has returned for a conflict at a level above 0; the
\* driver has not yet backtracked, so decision_level is the conflict level
\* and assignment is the assignment of the moment of the conflict.
AnalysisReturned == pc = "backjump" /\ decision_level > 0

\* C24: the clause returned by _analyze_conflict for a conflict at level
\* d > 0 is a 1-UIP asserting clause: its last literal is the only one
\* whose variable was assigned at level d, every other literal's variable
\* was assigned at a level strictly between 0 and d, no variable occurs
\* twice and every literal is false under the assignment of the conflict.
C24_LearnedClauseIsUIP ==
    AnalysisReturned =>
        /\ Len(learned_clause) >= 1
        /\ \A j \in 1..Len(learned_clause) :
               /\ learned_clause[j] \in Lits(num_vars)
               /\ lit_value(assignment, learned_clause[j]) = "False"
               /\ \A k \in 1..Len(learned_clause) :
                      Abs(learned_clause[k]) = Abs(learned_clause[j]) => k = j
               /\ (j = Len(learned_clause)) =
                      (var_level(trail, Abs(learned_clause[j])) = decision_level)
               /\ j < Len(learned_clause) =>
                      /\ var_level(trail, Abs(learned_clause[j])) > 0
                      /\ var_level(trail, Abs(learned_clause[j])) < decision_level

\* C25: the backtrack level b returned by _analyze_conflict for a conflict
\* at level d > 0 is 0 when the learned clause has one literal, otherwise
\* the greatest level of the variables of its literals other than the
\* last (asserting) one, and b < d; the backjump that follows leaves
\* decision_level = b and no trail entry of a level above b.
LearnedLevels ==
    {var_level(trail, Abs(learned_clause[j])) : j \in 1..(Len(learned_clause) - 1)}

BacktrackLevelIsMax ==
    AnalysisReturned =>
        /\ backtrack_level < decision_level
        /\ Len(learned_clause) = 1 => backtrack_level = 0
        /\ Len(learned_clause) > 1 =>
               /\ backtrack_level \in LearnedLevels
               /\ \A lv \in LearnedLevels : lv <= backtrack_level

BackjumpStep == pc = "backjump" /\ pc' = "loop" /\ num_conflicts % RestartPeriod # 0

C25_BacktrackLevel ==
    /\ []BacktrackLevelIsMax
    /\ [][BackjumpStep =>
             /\ decision_level' = backtrack_level
             /\ \A i \in 1..Len(trail') : trail'[i].level <= backtrack_level]_vars

C25_Witness ==
    /\ pc = "loop"
    /\ Len(learned_clauses) > 0
    /\ Len(learned_clause) > 1
    /\ backtrack_level > 0
    /\ decision_level = backtrack_level
    /\ Len(trail) > 0

\* C26: every clause held in the learned-clause database of CDCLSolver is
\* a logical consequence of the input clauses: each total assignment that
\* satisfies all input clauses makes a literal of the learned clause true.
Entailed(n, cls, clause) ==
    \A val \in [1..n -> {"True", "False"}] :
        SatisfiesAll(val, cls) => \E j \in 1..Len(clause) : LitTrueIn(clause[j], val)

C26_LearnedClauseEntailed ==
    \A i \in 1..Len(learned_clauses) :
        learned_clauses[i] < Len(clauses) =>
            Entailed(num_vars, input_clauses, clauses[learned_clauses[i] + 1])

\* C27: at every top of the main loop of CDCLSolver.solve, a trail entry
\* (l, d, c) with an antecedent c names a clause of the database that
\* contains l and whose other literals are all false, their variables
\* being on the trail with a level <= d.
AntecedentValid(e) ==
    /\ e.antecedent >= 0
    /\ e.antecedent < Len(clauses)
    /\ LET c == clauses[e.antecedent + 1]
       IN  /\ InClause(e.lit, c)
           /\ \A j \in 1..Len(c) :
                  c[j] # e.lit =>
                      /\ lit_value(assignment, c[j]) = "False"
                      /\ var_level(trail, Abs(c[j])) >= 0
                      /\ var_level(trail, Abs(c[j])) <= e.level

LevelAt(i) == Cardinality({d \in 1..Len(trail_lim) : trail_lim[d] <= i})

LevelMonotonicity ==
    /\ Len(trail_lim) = decision_level
    /\ \A d \in 1..(Len(trail_lim) - 1) : trail_lim[d] < trail_lim[d + 1]
    /\ \A i \in 1..Len(trail) : trail[i].level = LevelAt(i - 1)
    /\ \A i \in 1..(Len(trail) - 1) : trail[i].level <= trail[i + 1].level

C28_LevelMonotonicity == (pc = "loop") => LevelMonotonicity

C28_Witness ==
    /\ pc = "loop"
    /\ LevelMonotonicity
    /\ decision_level >= 1
    /\ num_conflicts >= 1
    /\ Len(trail) > trail_lim[decision_level] + 1

\* C29: a second call of _propagate, made right after a first one with no
\* change of the trail in between, returns what the first call returned
\* (the same conflict clause or None) and leaves trail, assignment, watch
\* lists and propagation head as the first call left them.
PropagatedTwice ==
    Let(Propagated, LAMBDA r :
        propagate(r.clauses, r.watch_list, r.trail, r.assignment, r.head,
                  r.props, decision_level))

C29_PropagateIdempotent ==
    (pc = "loop" /\ ~Propagated.raised) =>
        /\ PropagatedTwice.conflict = Propagated.conflict
        /\ ~PropagatedTwice.raised
        /\ PropagatedTwice.trail = Propagated.trail
        /\ PropagatedTwice.assignment = Propagated.assignment
        /\ PropagatedTwice.watch_list = Propagated.watch_list
        /\ PropagatedTwice.head = Propagated.head

\* The state _make_decision leaves when called on the propagation result;
\* var is NoVar when it returned without deciding.
Decided ==
    Let(Propagated, LAMBDA r :
    Let(choose_var(Heap, r.assignment), LAMBDA d :
        [var |-> d.var,
         bs |-> IF d.var = NoVar
                THEN [trail |-> r.trail, trail_lim |-> trail_lim,
                      assignment |-> r.assignment,
                      decision_level |-> decision_level, head |-> r.head, h |-> d.h]
                ELSE [trail |-> Append(r.trail, [lit |-> d.var,
                                                 level |-> decision_level + 1,
                                                 antecedent |-> NoClause]),
                      trail_lim |-> Append(trail_lim, Len(r.trail)),
                      assignment |-> [r.assignment EXCEPT ![d.var] = "True"],
                      decision_level |-> decision_level + 1,
                      head |-> r.head, h |-> d.h]]))

\* The decision undone by _backtrack(d - 1).
DecidedThenBacktracked == backtrack(Decided.bs, decision_level)

\* C30: a decision that opens level d, followed by _backtrack(d - 1),
\* gives back the assignment vector and the set of variables stored in the
\* heap of the moment before the decision.
C30_BacktrackInvertsDecision ==
    (DecisionDue /\ Decided.var # NoVar) =>
        /\ DecidedThenBacktracked.assignment = Propagated.assignment
        /\ {DecidedThenBacktracked.h.order[k] :
               k \in 1..Len(DecidedThenBacktracked.h.order)} = HeapVars

\* The indices of the clauses _reduce_learned_clauses has deleted: it
\* leaves an empty list in their place (the constructor admits no empty
\* input clause and _add_learned_clause adds no empty clause).
DeletedClauses == {i \in 0..(Len(clauses) - 1) : clauses[i + 1] = << >>}

\* C31 (state part): no trail entry has a deleted clause as antecedent, no
\* watch list holds the index of a deleted clause, and no input clause is
\* deleted.
NoReferenceToDeleted ==
    /\ \A i \in 1..Len(trail) : trail[i].antecedent \notin DeletedClauses
    /\ \A l \in DOMAIN watch_list : \A k \in 1..Len(watch_list[l]) :
           watch_list[l][k] \notin DeletedClauses
    /\ \A i \in DeletedClauses : i >= Len(original_clauses)

\* C31 (step part): within a solve call a deleted clause keeps its index,
\* which no later learned clause takes.
DeletedIndexNotReused ==
    (pc \in {"loop", "analyze", "backjump"}) =>
        \A i \in DeletedClauses : i < Len(clauses') /\ clauses'[i + 1] = << >>

\* C31: after _reduce_learned_clauses no reference to a deleted clause
\* remains, only learned clauses are deleted and the index of a deleted
\* clause is not given to a later learned clause.
C31_NoReferenceToDeleted ==
    /\ []NoReferenceToDeleted
    /\ [][DeletedIndexNotReused]_vars

\* The driver finishes handling a conflict found above level 0 (backjump,
\* clause addition, decay and, when due, the restart).
ConflictHandled == pc = "backjump" /\ pc' = "loop"

\* The clause database after the driver's _add_learned_clause.
AfterAddLearned ==
    add_learned_clause([clauses |-> clauses, learned_clauses |-> learned_clauses,
                        clause_activity |-> clause_activity,
                        watch_list |-> watch_list], learned_clause)

RECURSIVE UnitClosure(_)
UnitClosure(L) ==
    LET open(c) == {j \in 1..Len(c) : -c[j] \notin L}
        forced == {l \in Lits(num_vars) :
                     \E i \in 1..Len(input_clauses) :
                         /\ Cardinality(open(input_clauses[i])) = 1
                         /\ \A j \in open(input_clauses[i]) : input_clauses[i][j] = l}
    IN  IF forced \subseteq L THEN L ELSE UnitClosure(L \cup forced)

UnitsConsistent == \A l \in UnitClosure({}) : -l \notin UnitClosure({})

\* Propagation alone removes every clause: without conflict, each clause
\* gets a true literal.
DpllUnitsSettle ==
    /\ UnitsConsistent
    /\ \A i \in 1..Len(input_clauses) :
           \E j \in 1..Len(input_clauses[i]) : input_clauses[i][j] \in UnitClosure({})

\* Propagation alone assigns every variable, without conflict.
CdclUnitsSettle ==
    /\ DpllUnitsSettle
    /\ \A v \in 1..num_vars : v \in UnitClosure({}) \/ -v \in UnitClosure({})

\* C33: when unit propagation from the input's unit clauses alone settles
\* the formula (every variable assigned in CDCL, every clause removed in
\* DPLL), solve returns sat with 0 decisions (for CDCL: unless a deadline
\* is in force).
C33_PurePropagationNoDecision ==
    /\ (DpllDone /\ DpllUnitsSettle) =>
           dpll_result.is_sat = "True" /\ dpll_result.decisions = 0
    /\ (CdclDone /\ CdclUnitsSettle /\ time_limit \in {NoLimit, 0}) =>
           result.is_sat = "True" /\ result.decisions = 0

C33_Witness ==
    /\ DpllDone
    /\ CdclDone
    /\ CdclUnitsSettle
    /\ num_vars = 2
    /\ \E i \in 1..Len(input_clauses) : Len(input_clauses[i]) = 2
    /\ dpll_result.decisions = 0
    /\ result.is_sat = "True"
    /\ result.decisions = 0
    /\ result.propagations = 2

\* A _dpll call entered from _try_assignment starts from the state that
\* _try_assignment saved, changed by the branch's assignment only.
BranchStartsFromSaved ==
    (dpll_pc = "call" /\ Len(dpll_stack) > 0) =>
        /\ DpllTop.var \notin DOMAIN DpllTop.saved_assignment
        /\ dpll_assignment =
               DictSet(DpllTop.saved_assignment, DpllTop.var, BoolVal(DpllTop.value))
        /\ dpll_clauses =
               simplify_with_assignment(DpllTop.saved_clauses, DpllTop.var, DpllTop.value)

\* The recursive _dpll of a branch has returned False.
BranchFailed == dpll_pc = "ret" /\ Len(dpll_stack) > 0 /\ ~dpll_ret

\* The true branch failed: the false branch of the same variable is
\* entered with the same saved state.
FalseBranchFromSameState ==
    (BranchFailed /\ DpllTop.value /\ dpll_vars' # dpll_vars) =>
        /\ Len(dpll_stack') = Len(dpll_stack)
        /\ dpll_stack'[Len(dpll_stack)] = [DpllTop EXCEPT !.value = FALSE]
        /\ dpll_pc' = "call"

\* The false branch failed too: _try_assignment leaves the clause list and
\* the assignment it saved, which holds no value for the branch variable.
FailedBranchRestored ==
    (BranchFailed /\ ~DpllTop.value /\ dpll_vars' # dpll_vars) =>
        /\ dpll_clauses' = DpllTop.saved_clauses
        /\ dpll_assignment' = DpllTop.saved_assignment
        /\ DpllTop.var \notin DOMAIN dpll_assignment'
        /\ dpll_stack' = DpllPop

\* C34: when a DPLL branch fails, the clause list and the assignment are
\* restored to their values before the branch: the false branch starts
\* from the state the true branch started from, and a search that failed
\* in both branches leaves the state it found.
C34_FailedBranchRestores ==
    /\ []BranchStartsFromSaved
    /\ [][FalseBranchFromSameState /\ FailedBranchRestored]_vars

\* Both branches of a variable have failed and the state was restored
\* from changes the search had made.
C34_Witness ==
    /\ dpll_pc = "ret"
    /\ ~dpll_ret
    /\ dpll_stack = << >>
    /\ dpll_num_decisions >= 2
    /\ Len(dpll_clauses) >= 2
    /\ \A i \in 1..Len(dpll_clauses) : Len(dpll_clauses[i]) >= 1

\* A heap h = [order, pos, activity] is valid: pos is the reverse index of
\* order and has no other keys, and no child has more activity than its
\* parent.
HeapOk(h) ==
    /\ \A i \in 0..(Len(h.order) - 1) : h.pos[h.order[i + 1]] = i
    /\ \A v \in DOMAIN h.pos :
          h.pos[v] # NoPos =>
              /\ h.pos[v] \in 0..(Len(h.order) - 1)
              /\ h.order[h.pos[v] + 1] = v
    /\ \A i \in 1..(Len(h.order) - 1) :
          h.activity[h.order[((i - 1) \div 2) + 1]] >= h.activity[h.order[i + 1]]

\* The heaps after each _heap_insert of the loop of _init_data_structures.
InitInserts ==
    {init_heap([order |-> << >>, pos |-> [v \in 1..num_vars |-> NoPos],
                activity |-> activity], 1, k) : k \in 0..num_vars}

\* The heaps after each _bump_activity of the loop that ends
\* _analyze_conflict.
BumpedHeaps ==
    LET learned == learned_clause_of(Analyzed.an)
    IN  {bump_all(Heap, SubSeq(learned, 1, k), 1, activity_inc) : k \in 0..Len(learned)}

\* The heaps after each _heap_insert of _backtrack(level) called in bs.
BacktrackInserts(bs, level) ==
    IF level >= bs.decision_level \/ (level >= 0 /\ level >= Len(bs.trail_lim))
    THEN {bs.h}
    ELSE LET target == IF level < 0 THEN 0 ELSE bs.trail_lim[level + 1]
         IN  {bs.h} \cup {backtrack_undo(bs, Len(bs.trail) - 1, t).h :
                             t \in target..Len(bs.trail)}

\* The heaps after each _heap_pop of _choose_variable.
RECURSIVE PoppedHeaps(_, _)
PoppedHeaps(h, asg) ==
    IF Len(h.order) = 0 THEN {h}
    ELSE {h} \cup (IF asg[h.order[1]] = "None" THEN {heap_pop(h)}
                   ELSE PoppedHeaps(heap_pop(h), asg))

BacktrackState ==
    [trail |-> trail, trail_lim |-> trail_lim, assignment |-> assignment,
     decision_level |-> decision_level, head |-> propagate_head, h |-> Heap]

\* The main loop is about to call _make_decision.
AboutToDecide ==
    /\ pc = "loop"
    /\ ~DeadlineExceeded
    /\ ~Propagated.raised
    /\ Propagated.conflict = NoClause
    /\ Len(Propagated.trail) # num_vars

\* Every heap operation of the step that the state is about to take leaves
\* a valid heap.
HeapOperationsValid ==
    /\ (pc \in {"init", "done"} /\ num_vars > 0) => \A h \in InitInserts : HeapOk(h)
    /\ (pc = "analyze" /\ Analyzed.done) => \A h \in BumpedHeaps : HeapOk(h)
    /\ pc = "backjump" =>
          /\ \A h \in BacktrackInserts(BacktrackState, backtrack_level) : HeapOk(h)
          /\ \A h \in BacktrackInserts(backtrack(BacktrackState, backtrack_level), 0) :
                HeapOk(h)
    /\ AboutToDecide => \A h \in PoppedHeaps(Heap, Propagated.assignment) : HeapOk(h)

\* The variable that _make_decision pops has the largest activity of the
\* variables without value.
DecisionIsMaximal ==
    AboutToDecide =>
        LET d == choose_var(Heap, Propagated.assignment)
        IN  d.var # NoVar =>
                \A v \in 1..num_vars :
                    Propagated.assignment[v] = "None" => activity[d.var] >= activity[v]

\* C35: after every insert, pop, bump and backtrack of CDCL the variable
\* heap is a valid max-heap with a consistent reverse index (var_pos of
\* var_order[i] is i, var_pos has no other keys, no child has more activity
\* than its parent), and the variable popped for a decision has the largest
\* activity of the variables without value.
C35_HeapValid ==
    /\ HeapOk(Heap)
    /\ HeapOperationsValid
    /\ DecisionIsMaximal

\* A decision is about to pop a heap of two or more variables whose
\* activities differ, bumped by an earlier conflict.
C35_Witness ==
    /\ AboutToDecide
    /\ num_conflicts >= 1
    /\ Len(var_order) >= 2
    /\ activity[var_order[1]] > activity[var_order[2]]
    /\ choose_var(Heap, Propagated.assignment).var # NoVar

\* The variables that occur in the clauses generate_parity returned.
ParityVars ==
    UNION {{Abs(parity_clauses[c][k]) : k \in 1..Len(parity_clauses[c])} :
              c \in 1..Len(parity_clauses)}

ParityGenerated == gen_pc \in {"generated", "written"}

\* The auxiliary variables of the generated clauses are N+1..N+N-1.
ParityAuxRange ==
    ParityGenerated =>
        ParityVars \ (1..parity_num_vars) = (parity_num_vars + 1)..(2 * parity_num_vars - 1)

\* No literal of the written file exceeds the variable count of its
\* problem line, which is 2N-1.
ParityWithinHeader ==
    gen_pc = "written" =>
        /\ dimacs_file.num_vars = 2 * parity_num_vars - 1
        /\ \A i \in 1..Len(dimacs_file.lines) : \A k \in 1..Len(dimacs_file.lines[i]) :
              Abs(dimacs_file.lines[i][k]) <= dimacs_file.num_vars

\* C36: for every N >= 1 generate_parity(N) uses the auxiliary variables
\* N+1..N+N-1 and no others, so that every literal of the generated clauses
\* has magnitude at most 2N-1, the variable count that the generator
\* declares in the DIMACS header.
C36_ParityAuxiliaries ==
    /\ ParityAuxRange
    /\ ParityWithinHeader

====
